---- MODULE Spec2Model ----
(***************************************************************************)
(* Call monitoring and spy-recording orchestrator of verc-backend-service. *)
(*                                                                         *)
(* The model follows apps/twilio/pbx_monitor.py (the correlation engine    *)
(* process_buffalo_event and the in-process fallback cleanup_spy_call),    *)
(* apps/core/services/cloud_tasks.py (the two enqueue functions),          *)
(* apps/twilio/services.py (initiate_spy_call, hangup_call) and            *)
(* apps/tasks/views.py (the start-spy-call and cleanup-spy-call task       *)
(* handlers).                                                              *)
(*                                                                         *)
(* Text fields are TLA+ strings, with None for a missing key.  Telephone   *)
(* numbers are tuples of digits, so that is_did is computed on the string  *)
(* form as the code does; Absent is the missing number.                    *)
(***************************************************************************)
EXTENDS Integers, Sequences, FiniteSets, Bags, TLC

VARIABLES
    pending_calls,            \* pbx_monitor.pending_calls: call_id -> call details
    processed_answered_calls, \* pbx_monitor.processed_answered_calls
    tasks,                    \* the durable queue: bag of dispatched tasks
    sessions,                 \* rows of the sessions table, in insertion order
    calls,                    \* provider calls, indexed by call_sid
    effects,                  \* the collaborator calls made by the last handler run
    spy_count,                \* history: Spy signals per callId since its last terminated
    cleanup_dispatched,       \* history: the last Cleanup signal of a callId was enqueued
    poll,                     \* the recording poll loop of the cleanup handler, step by step
    harvest,                  \* the recording webhook and the cleanup handler, statement by statement
    ws,                       \* connect_to_buffalo_pbx: where the connection loop stands
    retry_count,              \* connect_to_buffalo_pbx: retry_count
    wait_time,                \* connect_to_buffalo_pbx: wait_time, the last backoff
    failed_before_connect,    \* history: the waits that preceded the last successful connection
    waits_since_connect,      \* history: the waits since the last successful connection
    ctl,                      \* run_pbx_monitor: where the control loop stands
    flag,                     \* what is_feature_enabled('pbx-monitor') answers
    credentials,              \* buffalo_pbx.username / password are set
    flag_checks,              \* history: flag checks of the control loop, saturating
    signal_at,                \* history: where SIGTERM / SIGINT found the process
    inbox,                    \* messages the connection holds for the message loop
    current,                  \* the message the loop body is processing
    arrived,                  \* history: the messages in arrival order
    processed                 \* history: the messages in the order their processing ended

connection == <<ws, retry_count, wait_time, failed_before_connect, waits_since_connect>>

control == <<ctl, flag, credentials, flag_checks, signal_at>>

stream == <<inbox, current, arrived, processed>>

vars == <<pending_calls, processed_answered_calls, tasks, sessions, calls,
          effects, spy_count, cleanup_dispatched, poll, harvest, connection, control, stream>>

(***************************************************************************)
(* Bounds of the model.                                                    *)
(***************************************************************************)
MaxCalls == 1
MaxTasks == 2
MaxPollRequest == 31
MaxRetries == 7

(***************************************************************************)
(* Values.                                                                 *)
(***************************************************************************)
None == "None"
Absent == <<-1>>
NotAvailable == <<-2>>
AgentExt == <<0, 2, 9, 2, 0, 9, 9, 7>>
AgentExt2 == <<0, 2, 9, 2, 0, 9, 9, 8>>
DidNum == <<7, 0, 0, 1, 2, 3, 4, 5, 6, 7>>
sip_username == <<6, 1, 9, 0>>
CallIds == {"c1", "c2"}

TruthyText(s) == s # None /\ s # ""
TruthyNum(n) == n # Absent /\ n # <<>>

(***************************************************************************)
(* The events of the feed.  A body is the part of a new/ringing event the  *)
(* engine reads; the bodies cover every branch of the new/ringing handler. *)
(***************************************************************************)
Body(st, s, d, c, ci, cn) ==
    [stype |-> st, snumber |-> s, dnumber |-> d, cnumber |-> c,
     callername_internal |-> ci, callername |-> cn]

EmptyBody == Body(None, Absent, Absent, Absent, None, None)

TrackedPhone == Body("phone", AgentExt, DidNum, Absent, "Agent A", None)
TrackedExternal == Body("external", Absent, AgentExt2, DidNum, None, "Jane Customer")
OwnPhone == Body("phone", sip_username, DidNum, Absent, None, None)
OwnExternal == Body("external", Absent, sip_username, DidNum, None, None)
QueueOwn == Body("queue", Absent, sip_username, Absent, None, None)
OtherStype == Body("conference", Absent, Absent, Absent, None, None)

Id(c) == [callid |-> c, uniqueid |-> None]

Event(t, id, b) ==
    [event |-> t, callid |-> id.callid, uniqueid |-> id.uniqueid,
     stype |-> b.stype, snumber |-> b.snumber, dnumber |-> b.dnumber,
     cnumber |-> b.cnumber, callername_internal |-> b.callername_internal,
     callername |-> b.callername]

EventsOf(ids, bodies, ringing) ==
    { Event("new", id, b) : id \in ids, b \in bodies }
      \cup { Event("ringing", id, b) : id \in ids, b \in ringing }
      \cup { Event(t, id, EmptyBody) : t \in {"answered", "terminated"}, id \in ids }

\* The feed of the correlation engine: two calls, and an event without id.
EventInputs ==
    EventsOf({ Id(c) : c \in CallIds },
             {TrackedPhone, OwnPhone, OtherStype}, {TrackedPhone})
      \cup { Event("new", Id(None), TrackedPhone) }

\* One call, of either tracked kind.
CallEventInputs ==
    EventsOf({ Id("c1") },
             {TrackedPhone, TrackedExternal, OwnPhone, OwnExternal, QueueOwn, OtherStype},
             {OwnPhone, QueueOwn})
      \cup EventsOf({ [callid |-> None, uniqueid |-> "c1"] }, {TrackedPhone}, {})

\* New and ringing events of one call: stype phone, external and queue with
\* every combination of a DID, an extension and an absent number in the two
\* numbers the branch reads, two events whose third number is set as well,
\* and the new event of a second call.
NumChoices == {DidNum, AgentExt, Absent}

TrackEventInputs ==
    { Event("new", Id("c1"), Body("phone", s, d, Absent, None, None)) :
        s \in NumChoices, d \in NumChoices }
      \cup { Event("new", Id("c1"), Body("external", Absent, d, c, None, None)) :
               d \in NumChoices, c \in NumChoices }
      \cup { Event(t, Id("c1"), Body("queue", Absent, d, Absent, None, None)) :
               t \in {"new", "ringing"}, d \in NumChoices }
      \cup { Event("new", Id("c1"), Body("phone", AgentExt, DidNum, DidNum, None, None)),
             Event("new", Id("c1"), Body("external", DidNum, AgentExt, AgentExt, None, None)),
             Event("ringing", Id("c1"), TrackedPhone),
             Event("new", Id("c2"), TrackedPhone) }

\* The feed of the whole system: one call of an agent.
FlowEventInputs == EventsOf({ Id("c1") }, {TrackedPhone}, {})

(***************************************************************************)
(* pbx_monitor.process_buffalo_event: the pure parts.                      *)
(***************************************************************************)
CallIdOf(e) == IF TruthyText(e.callid) THEN e.callid ELSE e.uniqueid

\* The length test left out.
is_did_prefix_only(num) ==
    IF ~TruthyNum(num) THEN FALSE ELSE Head(num) = 7

is_did(num) ==
    IF ~TruthyNum(num) THEN FALSE ELSE Head(num) = 7 /\ Len(num) = 10

\* The DID test left out of the choice of the agent.
AgentOf_ignores_did(e) == IF e.stype = "phone" THEN e.snumber ELSE e.cnumber

AgentOf(e) ==
    IF e.stype = "phone"
    THEN (IF is_did(e.snumber) THEN e.dnumber ELSE e.snumber)
    ELSE (IF is_did(e.cnumber) THEN e.dnumber ELSE e.cnumber)

\* Every tracked call taken for an agent's outgoing call.
DirectionOf_outbound(e) == "OUTBOUND"

DirectionOf(e) == IF e.stype = "phone" THEN "OUTBOUND" ELSE "INBOUND"

\* The check of the own extension left out.
IsOwnExtension_never(agent_ext) == FALSE

IsOwnExtension(agent_ext) == agent_ext = sip_username

CallerOf(e) ==
    IF e.callername_internal # None THEN e.callername_internal
    ELSE IF e.callername # None THEN e.callername
    ELSE "Unknown"

DestNumOf(e) == IF e.dnumber = Absent THEN NotAvailable ELSE e.dnumber

PendingCall(e, call_id) ==
    [spyNumber |-> AgentOf(e), direction |-> DirectionOf(e),
     caller |-> CallerOf(e), destNum |-> DestNumOf(e), callId |-> call_id,
     snumber |-> e.snumber, dnumber |-> e.dnumber, cnumber |-> e.cnumber]

Put(f, k, v) == [x \in DOMAIN f \cup {k} |-> IF x = k THEN v ELSE f[x]]
Del(f, k) == [x \in DOMAIN f \ {k} |-> f[x]]

(***************************************************************************)
(* The collaborators: the durable queue, the provider and the sessions     *)
(* table.  A call_sid is <<"CA", n>>, a recording_sid <<"RE", n>>; the     *)
(* empty tuple is the null column.                                         *)
(***************************************************************************)
Null == <<>>
\* Every column taken for set.
Truthy_always(v) == TRUE

Truthy(v) == v # Null

\* Only a call that was never reported further counts as active.
ActiveStatuses_initiated == {"initiated"}

ActiveStatuses == {"initiated", "calling", "in_progress"}

StartSpyPayload(extension, call_details) ==
    [extension |-> extension, buffaloCallId |-> call_details.callId,
     direction |-> call_details.direction, caller |-> call_details.caller,
     destNum |-> call_details.destNum, spyNumber |-> call_details.spyNumber,
     snumber |-> call_details.snumber, dnumber |-> call_details.dnumber,
     cnumber |-> call_details.cnumber]

StartSpyTask(extension, call_details) ==
    [kind |-> "start_spy_call", payload |-> StartSpyPayload(extension, call_details)]

CleanupTask(buffalo_call_id) ==
    [kind |-> "cleanup_spy_call", payload |-> [buffaloCallId |-> buffalo_call_id]]

\* The queue accepts a task or fails; a full queue (the model's bound) fails.
EnqueueResults == IF BagCardinality(tasks) < MaxTasks THEN BOOLEAN ELSE {FALSE}

\* The provider creates a call or raises (at the model's bound it raises), and
\* the insert returns the new row or nothing.
InitiateEnvs ==
    { [create_ok |-> FALSE, insert_ok |-> TRUE] }
      \cup (IF Len(calls) < MaxCalls
            THEN [create_ok : {TRUE}, insert_ok : BOOLEAN] ELSE {})

SessionRow(call_sid, extension, call_details) ==
    [id |-> Len(sessions) + 1, call_sid |-> call_sid,
     buffalo_call_id |-> call_details.callId, agent_extension |-> extension,
     direction |-> call_details.direction, caller_info |-> call_details.caller,
     destination_number |-> call_details.destNum, status |-> "initiated",
     recording_sid |-> Null, audio_storage_path |-> Null]

\* The session row written before the provider call exists.
initiate_spy_call_insert_first(extension, call_details, create_ok, insert_ok) ==
    LET call_sid == <<"CA", Len(calls) + 1>> IN
    IF ~create_ok
    THEN [calls |-> calls,
          sessions |-> Append(sessions, SessionRow(Null, extension, call_details)),
          result |-> [success |-> FALSE, call_sid |-> Null]]
    ELSE IF ~insert_ok
    THEN [calls |-> Append(calls, "in-progress"), sessions |-> sessions,
          result |-> [success |-> FALSE, call_sid |-> Null]]
    ELSE [calls |-> Append(calls, "in-progress"),
          sessions |-> Append(sessions, SessionRow(call_sid, extension, call_details)),
          result |-> [success |-> TRUE, call_sid |-> call_sid]]

\* services.initiate_spy_call: create_ok is client.calls.create succeeding,
\* insert_ok is the insert returning the new row.
initiate_spy_call(extension, call_details, create_ok, insert_ok) ==
    LET call_sid == <<"CA", Len(calls) + 1>> IN
    IF ~create_ok
    THEN [calls |-> calls, sessions |-> sessions,
          result |-> [success |-> FALSE, call_sid |-> Null]]
    ELSE IF ~insert_ok
    THEN [calls |-> Append(calls, "in-progress"), sessions |-> sessions,
          result |-> [success |-> FALSE, call_sid |-> Null]]
    ELSE [calls |-> Append(calls, "in-progress"),
          sessions |-> Append(sessions, SessionRow(call_sid, extension, call_details)),
          result |-> [success |-> TRUE, call_sid |-> call_sid]]

\* services.hangup_call: outcome "ok" terminates the call, "not_found" is the
\* provider's 20404 (reported as success), "error" any other failure.
HangupOutcomes == {"ok", "not_found", "error"}

hangup_call(call_sid, outcome) ==
    [calls |-> IF outcome = "ok"
               THEN [calls EXCEPT ![call_sid[2]] = "completed"] ELSE calls,
     success |-> outcome \in {"ok", "not_found"}]

SessionsOf(buffalo_call_id) ==
    { i \in 1..Len(sessions) : sessions[i].buffalo_call_id = buffalo_call_id }

\* pbx_monitor.cleanup_spy_call, the in-process fallback of a terminated event:
\* env.supabase_ok is get_supabase_client() returning a client, env.row the row
\* the select returns first, env.hangup the provider's answer.
cleanup_spy_call(buffalo_call_id, env) ==
    LET unchanged == [calls |-> calls, effects |-> <<>>] IN
    IF ~env.supabase_ok THEN unchanged
    ELSE IF SessionsOf(buffalo_call_id) = {} THEN unchanged
    ELSE LET session_data == sessions[env.row] IN
         IF ~Truthy(session_data.call_sid) THEN unchanged
         ELSE IF session_data.status \notin ActiveStatuses THEN unchanged
         ELSE LET h == hangup_call(session_data.call_sid, env.hangup) IN
              [calls |-> h.calls,
               effects |-> << [op |-> "hangup_call",
                               call_sid |-> session_data.call_sid,
                               ok |-> h.success] >>]

RowsOf(buffalo_call_id) ==
    IF SessionsOf(buffalo_call_id) = {} THEN {1} ELSE SessionsOf(buffalo_call_id)

FallbackEnvs(buffalo_call_id) ==
    { [supabase_ok |-> FALSE, row |-> 1, hangup |-> "ok"] }
      \cup [supabase_ok : {TRUE}, row : RowsOf(buffalo_call_id), hangup : HangupOutcomes]

(***************************************************************************)
(* tasks/views.py: the handlers of the two dispatched tasks.               *)
(***************************************************************************)
max_poll_time == 300
poll_interval == 10

OrElse(v, default) == IF v = Absent \/ v = Null THEN default ELSE v
OrElseText(v, default) == IF TruthyText(v) THEN v ELSE default

\* StartSpyCallView.post
StartSpyCallView_post(data, create_ok, insert_ok) ==
    IF ~TruthyNum(data.extension) \/ ~TruthyText(data.buffaloCallId)
    THEN [calls |-> calls, sessions |-> sessions, status |-> 400,
          effects |-> << >>]
    ELSE LET call_details ==
                 [callId |-> data.buffaloCallId,
                  direction |-> OrElseText(data.direction, "UNKNOWN"),
                  caller |-> OrElseText(data.caller, "Unknown"),
                  destNum |-> OrElse(data.destNum, NotAvailable),
                  spyNumber |-> OrElse(data.spyNumber, data.extension),
                  snumber |-> data.snumber, dnumber |-> data.dnumber,
                  cnumber |-> data.cnumber]
             r == initiate_spy_call(data.extension, call_details, create_ok, insert_ok)
         IN  [calls |-> r.calls, sessions |-> r.sessions,
              status |-> IF r.result.success THEN 200 ELSE 500,
              effects |-> << [op |-> "initiate_spy_call", ok |-> r.result.success,
                              extension |-> data.extension,
                              call_details |-> call_details] >>]

\* The test of the poll loop.
PollWindowOpen_inclusive(elapsed_time) == elapsed_time <= max_poll_time

PollWindowOpen(elapsed_time) == elapsed_time < max_poll_time

\* The poll loop of CleanupSpyCallView.post: p.ready_at is the first request
\* the provider answers with a recording (0: never), p.error_at the request
\* that raises TwilioRestException (0: none).
RECURSIVE PollLoop(_, _, _)
PollLoop(elapsed_time, requests, p) ==
    IF ~PollWindowOpen(elapsed_time)
    THEN [found |-> FALSE, requests |-> requests, elapsed_time |-> elapsed_time]
    ELSE IF p.error_at = requests + 1
    THEN [found |-> FALSE, requests |-> requests + 1, elapsed_time |-> elapsed_time]
    ELSE IF p.ready_at # 0 /\ p.ready_at <= requests + 1
    THEN [found |-> TRUE, requests |-> requests + 1, elapsed_time |-> elapsed_time]
    ELSE PollLoop(elapsed_time + poll_interval, requests + 1, p)

PollInputs ==
    { [ready_at |-> 1, error_at |-> 0], [ready_at |-> 2, error_at |-> 0],
      [ready_at |-> 0, error_at |-> 0], [ready_at |-> 0, error_at |-> 1] }

\* No recording webhook delivered and no cleanup handler running: how often
\* each handler ran, where each stands, what each read from the sessions table,
\* and how often the recording was downloaded, stored, written and triggered.
HarvestIdle ==
    [webhook_pc |-> "idle", cleanup_pc |-> "idle", cleanup_read |-> Null,
     webhooks |-> 0, cleanups |-> 0, downloads |-> 0, uploads |-> 0,
     recorded_writes |-> 0, triggers |-> 0, triggers_when |-> << >>]

\* The same loop, one evaluation of its test and body at a time.
PollIdle ==
    [ready_at |-> 0, error_at |-> 0, elapsed_time |-> 0, requests |-> 0,
     found |-> FALSE, pc |-> "idle"]

PollStart(p) ==
    [ready_at |-> p.ready_at, error_at |-> p.error_at, elapsed_time |-> 0,
     requests |-> 0, found |-> FALSE, pc |-> "while"]

PollCases == [ready_at : 0..MaxPollRequest, error_at : 0..MaxPollRequest]

PollIter(s) ==
    IF ~PollWindowOpen(s.elapsed_time) THEN [s EXCEPT !.pc = "done"]
    ELSE IF s.error_at = s.requests + 1
    THEN [s EXCEPT !.requests = @ + 1, !.pc = "done"]
    ELSE IF s.ready_at # 0 /\ s.ready_at <= s.requests + 1
    THEN [s EXCEPT !.requests = @ + 1, !.found = TRUE, !.pc = "done"]
    ELSE [s EXCEPT !.requests = @ + 1, !.elapsed_time = @ + poll_interval]

PollStep ==
    /\ poll.pc = "while"
    /\ poll' = PollIter(poll)
    /\ UNCHANGED <<pending_calls, processed_answered_calls, tasks, sessions, calls,
                   effects, spy_count, cleanup_dispatched, harvest, connection, control,
                   stream>>

StoragePath(session_id, recording_sid) ==
    <<"twilio-recordings", session_id, recording_sid>>

Response(code, eff, sess, cls) ==
    [status |-> code, effects |-> eff, sessions |-> sess, calls |-> cls]

\* The look at the stored recording left out.
RecordingPersisted_never(session_data) == FALSE

\* The recording of the session is already harvested.
RecordingPersisted(session_data) ==
    Truthy(session_data.recording_sid) /\ Truthy(session_data.audio_storage_path)

\* CleanupSpyCallView.post from the session lookup on, for the row found.
CleanupSession(i, env) ==
    LET session_data == sessions[i]
        session_id == session_data.id
        call_sid == session_data.call_sid
        status_value == session_data.status
        trigger == [op |-> "trigger_transcription", session_id |-> session_id,
                    ok |-> env.transcription_ok]
    IN
    IF RecordingPersisted(session_data)
    THEN IF status_value \in {"recorded", "transcribed", "completed"}
         THEN Response(200, << >>, sessions, calls)
         ELSE Response(200, << trigger >>, sessions, calls)
    ELSE IF ~Truthy(call_sid)
    THEN Response(200, << >>, sessions, calls)
    ELSE
    LET hang == status_value \in ActiveStatuses
        h == IF hang THEN hangup_call(call_sid, env.hangup)
             ELSE [calls |-> calls, success |-> TRUE]
        e1 == IF hang
              THEN << [op |-> "hangup_call", call_sid |-> call_sid, ok |-> h.success] >>
              ELSE << >>
        polled == PollLoop(0, 0, env.poll)
        e2 == e1 \o << [op |-> "list_recordings", call_sid |-> call_sid,
                        requests |-> polled.requests,
                        elapsed_time |-> polled.elapsed_time,
                        found |-> polled.found] >>
        recording_sid == <<"RE", call_sid[2]>>
        storage_path == StoragePath(session_id, recording_sid)
        e3 == e2 \o << [op |-> "download_twilio_recording",
                        recording_sid |-> recording_sid, ok |-> env.download_ok] >>
        e4 == e3 \o << [op |-> "upload_recording_to_storage",
                        storage_path |-> storage_path, ok |-> env.upload_ok] >>
    IN
    IF ~polled.found
    THEN IF env.update_ok
         THEN Response(200, e2, [sessions EXCEPT ![i].status = "completed"], h.calls)
         ELSE Response(500, e2, sessions, h.calls)
    ELSE IF ~env.download_ok THEN Response(500, e3, sessions, h.calls)
    ELSE IF ~env.upload_ok THEN Response(500, e4, sessions, h.calls)
    ELSE IF ~env.update_ok THEN Response(500, e4, sessions, h.calls)
    ELSE Response(200, e4 \o << trigger >>,
                  [sessions EXCEPT ![i].recording_sid = recording_sid,
                                   ![i].audio_storage_path = storage_path,
                                   ![i].status = "recorded"],
                  h.calls)

\* CleanupSpyCallView.post
CleanupSpyCallView_post(data, env) ==
    IF ~TruthyText(data.buffaloCallId) THEN Response(400, << >>, sessions, calls)
    ELSE IF ~env.supabase_ok THEN Response(503, << >>, sessions, calls)
    ELSE LET select == [op |-> "select_session",
                        buffalo_call_id |-> data.buffaloCallId]
         IN  IF SessionsOf(data.buffaloCallId) = {}
             THEN Response(200, << select >>, sessions, calls)
             ELSE [CleanupSession(env.row, env) EXCEPT !.effects = << select >> \o @]

\* The collaborators all answer, whatever the hangup and the poll bring ...
HealthyEnvs(buffalo_call_id) ==
    [supabase_ok : {TRUE}, row : RowsOf(buffalo_call_id), hangup : HangupOutcomes,
     poll : PollInputs, download_ok : {TRUE}, upload_ok : {TRUE}, update_ok : {TRUE},
     transcription_ok : {TRUE}]

\* ... or one of them fails.
FailingEnvs(buffalo_call_id) ==
    LET ok == { e \in HealthyEnvs(buffalo_call_id) :
                  e.hangup = "ok" /\ e.poll = [ready_at |-> 1, error_at |-> 0] } IN
    { [e EXCEPT !.supabase_ok = FALSE] : e \in ok }
      \cup { [e EXCEPT !.download_ok = FALSE] : e \in ok }
      \cup { [e EXCEPT !.upload_ok = FALSE] : e \in ok }
      \cup { [e EXCEPT !.update_ok = FALSE] : e \in ok }
      \cup { [e EXCEPT !.transcription_ok = FALSE] : e \in ok }

CleanupEnvs(buffalo_call_id) ==
    HealthyEnvs(buffalo_call_id) \cup FailingEnvs(buffalo_call_id)

(***************************************************************************)
(* pbx_monitor.process_buffalo_event: the handler of one event.            *)
(***************************************************************************)
NoSignal ==
    /\ effects' = <<>>
    /\ UNCHANGED <<pending_calls, processed_answered_calls, tasks, sessions, calls>>

\* The queue branch tracking a call it does not know.
TrackedCalls_queue_creates(e, call_id) ==
    IF e.stype \in {"phone", "external"}
    THEN IF IsOwnExtension(AgentOf(e)) THEN pending_calls
         ELSE IF TruthyNum(AgentOf(e))
              THEN Put(pending_calls, call_id, PendingCall(e, call_id))
              ELSE pending_calls
    ELSE IF e.stype = "queue"
    THEN IF TruthyNum(e.dnumber)
         THEN Put(pending_calls, call_id,
                  [PendingCall(e, call_id) EXCEPT !.spyNumber = e.dnumber])
         ELSE pending_calls
    ELSE pending_calls

\* The queue branch writing the whole PendingCall anew.
TrackedCalls_queue_replaces(e, call_id) ==
    IF e.stype \in {"phone", "external"}
    THEN IF IsOwnExtension(AgentOf(e)) THEN pending_calls
         ELSE IF TruthyNum(AgentOf(e))
              THEN Put(pending_calls, call_id, PendingCall(e, call_id))
              ELSE pending_calls
    ELSE IF e.stype = "queue"
    THEN IF call_id \in DOMAIN pending_calls /\ TruthyNum(e.dnumber)
         THEN Put(pending_calls, call_id,
                  [PendingCall(e, call_id) EXCEPT !.spyNumber = e.dnumber])
         ELSE pending_calls
    ELSE pending_calls

\* new / ringing: pending_calls after the event.
TrackedCalls(e, call_id) ==
    IF e.stype \in {"phone", "external"}
    THEN IF IsOwnExtension(AgentOf(e)) THEN pending_calls
         ELSE IF TruthyNum(AgentOf(e))
              THEN Put(pending_calls, call_id, PendingCall(e, call_id))
              ELSE pending_calls
    ELSE IF e.stype = "queue"
    THEN IF call_id \in DOMAIN pending_calls /\ TruthyNum(e.dnumber)
         THEN [pending_calls EXCEPT ![call_id].spyNumber = e.dnumber]
         ELSE pending_calls
    ELSE pending_calls

\* new / ringing: the line the skip of the own extension logs.
SkipLog(e) ==
    IF e.stype \in {"phone", "external"} /\ IsOwnExtension(AgentOf(e))
    THEN << [op |-> "log", tag |-> "PBX-SKIP", about |-> AgentOf(e)] >>
    ELSE << >>

OnNewOrRinging(e, call_id) ==
    /\ pending_calls' = TrackedCalls(e, call_id)
    /\ effects' = SkipLog(e)
    /\ UNCHANGED <<processed_answered_calls, tasks, sessions, calls>>

\* The duplicate guard left out: every answered event of a pending call passes.
AlreadyProcessed_never(call_id) == FALSE

AlreadyProcessed(call_id) == call_id \in processed_answered_calls

\* The removal of the answered call left out.
PendingAfterAnswered_keep(call_id) == pending_calls

PendingAfterAnswered(call_id) == Del(pending_calls, call_id)

\* answered, for a call_id in pending_calls.
OnAnswered(call_id) ==
    IF AlreadyProcessed(call_id)
    THEN /\ effects' = << [op |-> "log", tag |-> "PBX-ANSWERED-DUPLICATE",
                           about |-> call_id] >>
         /\ UNCHANGED <<pending_calls, processed_answered_calls, tasks, sessions, calls>>
    ELSE LET call_details == pending_calls[call_id]
             agent_ext == call_details.spyNumber
         IN  /\ processed_answered_calls' = processed_answered_calls \cup {call_id}
             /\ \E task_queued \in EnqueueResults :
                  IF task_queued
                  THEN /\ tasks' = tasks (+) SetToBag({StartSpyTask(agent_ext, call_details)})
                       /\ effects' = << [op |-> "enqueue_start_spy_call_task", ok |-> TRUE,
                                         extension |-> agent_ext,
                                         call_details |-> call_details] >>
                       /\ UNCHANGED <<sessions, calls>>
                  ELSE \E env \in InitiateEnvs :
                         LET r == initiate_spy_call(agent_ext, call_details,
                                                    env.create_ok, env.insert_ok)
                         IN  /\ calls' = r.calls
                             /\ sessions' = r.sessions
                             /\ effects' =
                                  << [op |-> "enqueue_start_spy_call_task", ok |-> FALSE,
                                      extension |-> agent_ext,
                                      call_details |-> call_details],
                                     [op |-> "initiate_spy_call", ok |-> r.result.success,
                                      extension |-> agent_ext,
                                      call_details |-> call_details] >>
                             /\ UNCHANGED tasks
             /\ pending_calls' = PendingAfterAnswered(call_id)

PendingAfterTerminated(call_id) ==
    IF call_id \in DOMAIN pending_calls THEN Del(pending_calls, call_id)
    ELSE pending_calls

\* The discard left out: the guard survives the end of the call.
ProcessedAfterTerminated_keep(call_id) == processed_answered_calls

ProcessedAfterTerminated(call_id) == processed_answered_calls \ {call_id}

\* terminated.
OnTerminated(call_id) ==
    /\ pending_calls' = PendingAfterTerminated(call_id)
    /\ processed_answered_calls' = ProcessedAfterTerminated(call_id)
    /\ UNCHANGED sessions
    /\ \E task_queued \in EnqueueResults :
         IF task_queued
         THEN /\ tasks' = tasks (+) SetToBag({CleanupTask(call_id)})
              /\ effects' = << [op |-> "enqueue_cleanup_spy_call_task", ok |-> TRUE,
                                buffalo_call_id |-> call_id] >>
              /\ UNCHANGED calls
         ELSE \E env \in FallbackEnvs(call_id) :
                LET r == cleanup_spy_call(call_id, env)
                IN  /\ calls' = r.calls
                    /\ effects' =
                         << [op |-> "enqueue_cleanup_spy_call_task", ok |-> FALSE,
                             buffalo_call_id |-> call_id],
                            [op |-> "cleanup_spy_call",
                             buffalo_call_id |-> call_id] >> \o r.effects
                    /\ UNCHANGED tasks

\* Every event type the branches do not name taken for terminated.
Dispatch_else_terminated(e, call_id) ==
    IF ~TruthyText(call_id) THEN NoSignal
    ELSE IF e.event \in {"new", "ringing"} THEN OnNewOrRinging(e, call_id)
    ELSE IF e.event = "answered" /\ call_id \in DOMAIN pending_calls
    THEN OnAnswered(call_id)
    ELSE IF e.event # "answered" THEN OnTerminated(call_id)
    ELSE NoSignal

Dispatch(e, call_id) ==
    IF ~TruthyText(call_id) THEN NoSignal
    ELSE IF e.event \in {"new", "ringing"} THEN OnNewOrRinging(e, call_id)
    ELSE IF e.event = "answered" /\ call_id \in DOMAIN pending_calls
    THEN OnAnswered(call_id)
    ELSE IF e.event = "terminated" THEN OnTerminated(call_id)
    ELSE NoSignal

(***************************************************************************)
(* The lifecycle signals of spec section 4.1, read off the effects.        *)
(***************************************************************************)
IsSpySignal(x) ==
    \/ x.op = "enqueue_start_spy_call_task" /\ x.ok
    \/ x.op = "initiate_spy_call"

IsCleanupSignal(x) ==
    \/ x.op = "enqueue_cleanup_spy_call_task" /\ x.ok
    \/ x.op = "cleanup_spy_call"

SpySignals(eff) == { i \in DOMAIN eff : IsSpySignal(eff[i]) }
CleanupSignals(eff) == { i \in DOMAIN eff : IsCleanupSignal(eff[i]) }

process_buffalo_event(e) ==
    LET call_id == CallIdOf(e) IN
    /\ Dispatch(e, call_id)
    /\ spy_count' =
         IF call_id \in CallIds
         THEN [spy_count EXCEPT ![call_id] =
                 IF e.event = "terminated" THEN 0
                 ELSE @ + Cardinality(SpySignals(effects'))]
         ELSE spy_count
    /\ cleanup_dispatched' =
         IF call_id \in CallIds /\ e.event = "terminated"
         THEN [cleanup_dispatched EXCEPT ![call_id] =
                 effects'[1].op = "enqueue_cleanup_spy_call_task" /\ effects'[1].ok]
         ELSE cleanup_dispatched
    /\ UNCHANGED <<poll, harvest, connection, control>>

Init ==
    /\ pending_calls = << >>
    /\ processed_answered_calls = {}
    /\ tasks = EmptyBag
    /\ sessions = << >>
    /\ calls = << >>
    /\ effects = << >>
    /\ spy_count = [c \in CallIds |-> 0]
    /\ cleanup_dispatched = [c \in CallIds |-> FALSE]
    /\ poll = PollIdle
    /\ harvest = HarvestIdle
    /\ ws = "connecting" /\ retry_count = 0 /\ wait_time = 0
    /\ failed_before_connect = 0 /\ waits_since_connect = 0
    /\ ctl = "running" /\ flag = TRUE /\ flag_checks = 1 /\ signal_at = "none"
    /\ credentials = [username |-> TRUE, password |-> TRUE]
    /\ inbox = << >> /\ current = Null /\ arrived = << >> /\ processed = << >>

Feed == (\E e \in EventInputs : process_buffalo_event(e)) /\ UNCHANGED stream

FeedFlow == (\E e \in FlowEventInputs : process_buffalo_event(e)) /\ UNCHANGED stream

FeedCall == (\E e \in CallEventInputs : process_buffalo_event(e)) /\ UNCHANGED stream

\* The numbers is_did is asked about: the absent and the empty value, and the
\* digit strings of every length up to MaxDigits with every first digit,
\* among them the numbers of the sample feed.
MaxDigits == 11

Digits(first, len, fill) == [i \in 1..len |-> IF i = 1 THEN first ELSE fill]

DidInputs ==
    { Absent, << >>, DidNum, AgentExt, <<7, 1, 2, 3, 4, 5, 6>> }
      \cup { Digits(first, len, fill) :
               first \in 0..9, len \in 1..MaxDigits, fill \in {0, 7} }

\* A call of is_did, as process_buffalo_event makes for snumber and cnumber.
AskIsDid ==
    /\ \E num \in DidInputs :
         effects' = << [op |-> "is_did", num |-> num, result |-> is_did(num)] >>
    /\ UNCHANGED <<pending_calls, processed_answered_calls, tasks, sessions, calls,
                   spy_count, cleanup_dispatched, poll, harvest, connection, control, stream>>

\* is_did alone.
SpecDid == Init /\ [][AskIsDid]_vars

\* The feed of new and ringing events, each kept in the histories.
MaxTracked == 3

FeedTrack ==
    /\ Len(processed) < MaxTracked
    /\ \E e \in TrackEventInputs :
         /\ process_buffalo_event(e)
         /\ processed' = Append(processed, [kind |-> "object", event |-> e])
         /\ arrived' = Append(arrived, [kind |-> "object", event |-> e])
    /\ UNCHANGED <<inbox, current>>

\* The correlation engine alone, fed new and ringing events.
SpecTrack == Init /\ [][FeedTrack]_vars

\* The queue delivers a task: a 2xx answer completes it, any other answer
\* leaves it queued for a retry.
Delivered_always(t, status) == tasks (-) SetToBag({t})

Delivered(t, status) ==
    IF status \in 200..299 THEN tasks (-) SetToBag({t}) ELSE tasks

RunStartSpyCall ==
    \E t \in BagToSet(tasks) :
      /\ t.kind = "start_spy_call"
      /\ \E env \in InitiateEnvs :
           LET r == StartSpyCallView_post(t.payload, env.create_ok, env.insert_ok)
           IN  /\ calls' = r.calls
               /\ sessions' = r.sessions
               /\ effects' = r.effects
               /\ tasks' = Delivered(t, r.status)
      /\ UNCHANGED <<pending_calls, processed_answered_calls, spy_count,
                     cleanup_dispatched, poll, harvest, connection, control, stream>>

RunCleanupSpyCall ==
    \E t \in BagToSet(tasks) :
      /\ t.kind = "cleanup_spy_call"
      /\ \E env \in CleanupEnvs(t.payload.buffaloCallId) :
           LET r == CleanupSpyCallView_post(t.payload, env)
           IN  /\ calls' = r.calls
               /\ sessions' = r.sessions
               /\ effects' = r.effects
               /\ tasks' = Delivered(t, r.status)
      /\ UNCHANGED <<pending_calls, processed_answered_calls, spy_count,
                     cleanup_dispatched, poll, harvest, connection, control, stream>>

(***************************************************************************)
(* pbx_monitor.connect_to_buffalo_pbx: the connection loop.                *)
(***************************************************************************)
max_reconnect_delay == 60

Min2(a, b) == IF a <= b THEN a ELSE b

\* wait_time after retry_count was raised to k.
Backoff_uncapped(k) == 2 ^ Min2(k, 6)

Backoff(k) == Min2(2 ^ Min2(k, 6), max_reconnect_delay)

\* retry_count once websockets.connect has succeeded.
RetryCountOnConnect_keep(count) == count

RetryCountOnConnect(count) == 0

\* The loop left when the connection ends or fails.
BackoffStep_exits ==
    /\ retry_count' = retry_count + 1
    /\ wait_time' = Backoff(retry_count + 1)
    /\ ws' = "stopped"
    /\ waits_since_connect' = waits_since_connect + 1
    /\ UNCHANGED failed_before_connect

\* The tail of the loop body: retry_count += 1, wait_time, asyncio.sleep.
BackoffStep ==
    /\ retry_count' = retry_count + 1
    /\ wait_time' = Backoff(retry_count + 1)
    /\ ws' = "waiting"
    /\ waits_since_connect' = waits_since_connect + 1
    /\ UNCHANGED failed_before_connect

\* The correlation state started afresh with every connection.
ConnectOk_forgets ==
    /\ ws = "connecting"
    /\ ws' = "connected"
    /\ retry_count' = RetryCountOnConnect(retry_count)
    /\ failed_before_connect' = waits_since_connect
    /\ waits_since_connect' = 0
    /\ pending_calls' = << >>
    /\ processed_answered_calls' = {}
    /\ UNCHANGED <<wait_time, tasks, sessions, calls, effects, spy_count,
                   cleanup_dispatched, poll, harvest, control, stream>>

\* websockets.connect succeeds.
ConnectOk ==
    /\ ws = "connecting"
    /\ ws' = "connected"
    /\ retry_count' = RetryCountOnConnect(retry_count)
    /\ failed_before_connect' = waits_since_connect
    /\ waits_since_connect' = 0
    /\ UNCHANGED <<wait_time, pending_calls, processed_answered_calls, tasks, sessions,
                   calls, effects, spy_count, cleanup_dispatched, poll, harvest, control, stream>>

\* websockets.connect raises.
ConnectFail ==
    /\ ws = "connecting"
    /\ retry_count < MaxRetries
    /\ BackoffStep
    /\ UNCHANGED <<pending_calls, processed_answered_calls, tasks, sessions, calls,
                   effects, spy_count, cleanup_dispatched, poll, harvest, control, stream>>

\* The connection ends while the loop reads from it: closed by the server,
\* or lost.
Disconnect ==
    /\ ws = "connected"
    /\ retry_count < MaxRetries
    /\ BackoffStep
    /\ UNCHANGED <<pending_calls, processed_answered_calls, tasks, sessions, calls,
                   effects, spy_count, cleanup_dispatched, poll, harvest, control, stream>>

\* asyncio.sleep(wait_time) returns and the loop connects again.
WaitOver ==
    /\ ws = "waiting"
    /\ ws' = "connecting"
    /\ UNCHANGED <<retry_count, wait_time, failed_before_connect, waits_since_connect,
                   pending_calls, processed_answered_calls, tasks, sessions, calls,
                   effects, spy_count, cleanup_dispatched, poll, harvest, control, stream>>

\* The messages of the socket: text that is not JSON, JSON that is not an
\* object, and the events of one call.
Messages ==
    { [kind |-> "text", event |-> Null], [kind |-> "value", event |-> Null] }
      \cup { [kind |-> "object", event |-> e] : e \in FlowEventInputs }

\* What json.loads and process_buffalo_event raise for a message.
Raised(m) ==
    IF m.kind = "text" THEN "JSONDecodeError"
    ELSE IF m.kind = "value" THEN "AttributeError"
    ELSE "none"

\* The except clauses of the message loop.
InnerCaught_json_only(exc) == exc = "JSONDecodeError"

InnerCaught(exc) == exc = "JSONDecodeError" \/ exc # "none"

\* The body of "async for message in ws" for one message.
HandleMessage(m) ==
    /\ ws = "connected"
    /\ IF Raised(m) = "none" THEN process_buffalo_event(m.event)
       ELSE IF InnerCaught(Raised(m))
       THEN /\ effects' = << [op |-> "log",
                               tag |-> IF Raised(m) = "JSONDecodeError"
                                       THEN "PBX-MONITOR-NON-JSON"
                                       ELSE "PBX-MONITOR-EVENT-ERROR",
                               about |-> m.kind] >>
            /\ UNCHANGED <<pending_calls, processed_answered_calls, tasks, sessions,
                           calls, spy_count, cleanup_dispatched, poll, harvest, connection,
                           control>>
       ELSE /\ retry_count < MaxRetries
            /\ BackoffStep
            /\ effects' = << [op |-> "log", tag |-> "PBX-MONITOR-CONNECTION-ERROR",
                               about |-> m.kind] >>
            /\ UNCHANGED <<pending_calls, processed_answered_calls, tasks, sessions,
                           calls, spy_count, cleanup_dispatched, poll, harvest, control>>

\* One iteration of "async for message in ws".
ReceiveMessage(m) == HandleMessage(m) /\ UNCHANGED stream

Receive == \E m \in Messages : ReceiveMessage(m)

\* The connection loop without traffic.
SpecConnect == Init /\ [][ConnectOk \/ ConnectFail \/ Disconnect \/ WaitOver]_vars

\* The connection loop and the messages of one call.
SpecMonitor ==
    Init /\ [][ConnectOk \/ ConnectFail \/ Disconnect \/ WaitOver \/ Receive]_vars

(***************************************************************************)
(* The message loop of connect_to_buffalo_pbx, message by message.         *)
(***************************************************************************)
MaxMessages == 5

\* "await process_buffalo_event(event)": the loop asks the connection for
\* the next message only when the body has finished the last one.
Idle_always == TRUE

Idle == current = Null

\* The server sends a message; the connection holds it for the loop.
Arrive ==
    /\ ws = "connected"
    /\ Len(arrived) < MaxMessages
    /\ \E m \in Messages :
         /\ inbox' = Append(inbox, m)
         /\ arrived' = Append(arrived, m)
    /\ UNCHANGED <<pending_calls, processed_answered_calls, tasks, sessions, calls,
                   effects, spy_count, cleanup_dispatched, poll, harvest, connection, control,
                   current, processed>>

\* "async for message in ws" yields the next message.
Take ==
    /\ ws = "connected"
    /\ Idle
    /\ inbox # << >>
    /\ current' = Head(inbox)
    /\ inbox' = Tail(inbox)
    /\ UNCHANGED <<pending_calls, processed_answered_calls, tasks, sessions, calls,
                   effects, spy_count, cleanup_dispatched, poll, harvest, connection, control,
                   arrived, processed>>

\* The loop body runs to its end for the message taken, fallbacks included.
Process ==
    /\ current # Null
    /\ HandleMessage(current)
    /\ current' = Null
    /\ processed' = Append(processed, current)
    /\ UNCHANGED <<inbox, arrived>>

\* One connection and the messages it delivers.
SpecStream == Init /\ [][ConnectOk \/ Arrive \/ Take \/ Process]_vars

(***************************************************************************)
(* pbx_monitor.run_pbx_monitor: the control loop, and the signals.         *)
(***************************************************************************)
MaxFlagChecks == 2

\* The classes "except Exception" catches: KeyboardInterrupt is not one.
IsException_all(exc) == TRUE

IsException(exc) == exc # "KeyboardInterrupt"

\* The try statements around the running code, their except clauses in
\* order, and where each clause sends control.
Clauses(frame) ==
    CASE frame = "message_try" ->
           << [catches |-> "JSONDecodeError", to |-> "next_message"],
              [catches |-> "Exception", to |-> "next_message"] >>
      [] frame = "connect_try" ->
           << [catches |-> "ConnectionClosed", to |-> "backoff"],
              [catches |-> "Exception", to |-> "backoff"] >>
      [] frame = "run_try" ->
           << [catches |-> "KeyboardInterrupt", to |-> "break"],
              [catches |-> "Exception", to |-> "sleep"] >>
      [] frame = "loop_try" ->
           << [catches |-> "KeyboardInterrupt", to |-> "break"],
              [catches |-> "Exception", to |-> "error_sleep"] >>
      [] frame = "command_try" ->
           << [catches |-> "KeyboardInterrupt", to |-> "exit"],
              [catches |-> "Exception", to |-> "reraise"] >>

Catches(clause, exc) ==
    clause.catches = exc \/ (clause.catches = "Exception" /\ IsException(exc))

FirstMatch(clauses, exc) ==
    LET hits == { i \in DOMAIN clauses : Catches(clauses[i], exc) } IN
    IF hits = {} THEN "unhandled"
    ELSE clauses[CHOOSE i \in hits : \A j \in hits : i <= j].to

\* The try statements that enclose a place of the code, innermost first.
Stack(at) ==
    CASE at = "flag_check" -> <<"loop_try", "command_try">>
      [] at = "connect" -> <<"connect_try", "run_try", "loop_try", "command_try">>
      [] at = "read" -> <<"connect_try", "run_try", "loop_try", "command_try">>
      [] at = "message" ->
           <<"message_try", "connect_try", "run_try", "loop_try", "command_try">>
      [] at = "backoff_sleep" -> <<"run_try", "loop_try", "command_try">>
      [] at = "sleep" -> <<"loop_try", "command_try">>
      [] at = "error_sleep" -> <<"command_try">>

\* Where an exception raised at a place ends up.
RECURSIVE Resolve(_, _)
Resolve(exc, stack) ==
    IF stack = << >> THEN "uncaught"
    ELSE LET to == FirstMatch(Clauses(Head(stack)), exc) IN
         IF to # "unhandled" THEN to ELSE Resolve(exc, Tail(stack))

\* The places the process can be at.
Locations ==
    IF ctl = "check_flag" THEN {"flag_check"}
    ELSE IF ctl = "sleeping" THEN {"sleep"}
    ELSE IF ctl = "error_sleep" THEN {"error_sleep"}
    ELSE IF ctl # "running" THEN {}
    ELSE IF ws = "connecting" THEN {"connect"}
    ELSE IF ws = "connected" THEN {"read", "message"}
    ELSE IF ws = "waiting" THEN {"backoff_sleep"}
    ELSE {}

\* Control after an except clause (or none) took the exception.
Land(to) ==
    IF to = "next_message" THEN UNCHANGED <<ctl, connection>>
    ELSE IF to = "backoff"
    THEN retry_count < MaxRetries /\ BackoffStep /\ UNCHANGED ctl
    ELSE /\ ctl' = IF to = "sleep" THEN "sleeping"
                   ELSE IF to = "error_sleep" THEN "error_sleep"
                   ELSE "stopped"
         /\ ws' = "off"
         /\ UNCHANGED <<retry_count, wait_time, failed_before_connect,
                        waits_since_connect>>

\* connect_to_buffalo_pbx up to its loop: the credentials.
HasCredentials_username_only(c) == c.username

HasCredentials(c) == c.username /\ c.password

StartManager ==
    IF ~HasCredentials(credentials)
    THEN ctl' = "sleeping" /\ UNCHANGED connection
    ELSE /\ ctl' = "running"
         /\ ws' = "connecting"
         /\ retry_count' = 0
         /\ waits_since_connect' = 0
         /\ failed_before_connect' = 0
         /\ UNCHANGED wait_time

\* One pass of the control loop up to the sleep or the running manager.
CheckFlag ==
    /\ ctl = "check_flag"
    /\ flag_checks' = Min2(flag_checks + 1, MaxFlagChecks)
    /\ \E raises \in BOOLEAN :
         IF raises THEN Land(Resolve("Exception", Stack("flag_check")))
         ELSE IF flag THEN StartManager
         ELSE ctl' = "sleeping" /\ UNCHANGED connection
    /\ UNCHANGED <<pending_calls, processed_answered_calls, tasks, sessions, calls,
                   effects, spy_count, cleanup_dispatched, poll, harvest, flag, credentials,
                   signal_at, stream>>

\* time.sleep(30) of the loop returns.
Wake ==
    /\ ctl = "sleeping"
    /\ ctl' = "check_flag"
    /\ UNCHANGED <<pending_calls, processed_answered_calls, tasks, sessions, calls,
                   effects, spy_count, cleanup_dispatched, poll, harvest, connection, flag,
                   credentials, flag_checks, signal_at, stream>>

\* time.sleep(30) of the error path returns.
ErrorWake ==
    /\ ctl = "error_sleep"
    /\ ctl' = "check_flag"
    /\ UNCHANGED <<pending_calls, processed_answered_calls, tasks, sessions, calls,
                   effects, spy_count, cleanup_dispatched, poll, harvest, connection, flag,
                   credentials, flag_checks, signal_at, stream>>

\* An operator switches the flag.
ToggleFlag ==
    /\ ctl # "stopped"
    /\ flag' = ~flag
    /\ UNCHANGED <<pending_calls, processed_answered_calls, tasks, sessions, calls,
                   effects, spy_count, cleanup_dispatched, poll, harvest, connection, ctl,
                   credentials, flag_checks, signal_at, stream>>

\* SIGTERM or SIGINT: handle_shutdown raises KeyboardInterrupt where the
\* process is.
Signal ==
    /\ signal_at = "none"
    /\ \E at \in Locations :
         /\ signal_at' = at
         /\ Land(Resolve("KeyboardInterrupt", Stack(at)))
    /\ UNCHANGED <<pending_calls, processed_answered_calls, tasks, sessions, calls,
                   effects, spy_count, cleanup_dispatched, poll, harvest, flag, credentials,
                   flag_checks, stream>>

\* The traffic of the control loop: text that is not JSON and the new event
\* of one call.
ControlMessages ==
    { m \in Messages : m.kind = "text" \/ (m.kind = "object" /\ m.event.event = "new") }

ManagerStep ==
    /\ ctl = "running"
    /\ \/ ConnectOk
       \/ ConnectFail
       \/ Disconnect
       \/ WaitOver
       \/ \E m \in ControlMessages : ReceiveMessage(m)

InitControl ==
    /\ pending_calls = << >>
    /\ processed_answered_calls = {}
    /\ tasks = EmptyBag
    /\ sessions = << >>
    /\ calls = << >>
    /\ effects = << >>
    /\ spy_count = [c \in CallIds |-> 0]
    /\ cleanup_dispatched = [c \in CallIds |-> FALSE]
    /\ poll = PollIdle
    /\ harvest = HarvestIdle
    /\ ws = "off" /\ retry_count = 0 /\ wait_time = 0
    /\ failed_before_connect = 0 /\ waits_since_connect = 0
    /\ ctl = "check_flag" /\ flag \in BOOLEAN /\ flag_checks = 0 /\ signal_at = "none"
    /\ credentials \in [username : BOOLEAN, password : BOOLEAN]
    /\ inbox = << >> /\ current = Null /\ arrived = << >> /\ processed = << >>

NextControl == CheckFlag \/ Wake \/ ErrorWake \/ ToggleFlag \/ Signal \/ ManagerStep

\* The control loop, the manager it runs, the flag and the signals.
SpecControl == InitControl /\ [][NextControl]_vars

\* The same, where every step of the program that can be taken is taken.
SpecControlFair ==
    SpecControl /\ WF_vars(CheckFlag) /\ WF_vars(Wake) /\ WF_vars(ErrorWake)
      /\ WF_vars(ManagerStep)

Next == FeedFlow \/ RunStartSpyCall \/ RunCleanupSpyCall

\* The whole system: the feed of one call, and the two task handlers.
Spec == Init /\ [][Next]_vars

\* The rows of the sessions table the cleanup handler may find for "c1": a
\* session of a spy call before its recording is stored, a session whose
\* recording is stored and that the transcription pipeline has taken further,
\* and a session without a provider call.
StoredSession(call_sid, status, recorded) ==
    [id |-> 1, call_sid |-> call_sid, buffalo_call_id |-> "c1",
     agent_extension |-> AgentExt, direction |-> "OUTBOUND",
     caller_info |-> "Agent A", destination_number |-> DidNum, status |-> status,
     recording_sid |-> IF recorded THEN <<"RE", 1>> ELSE Null,
     audio_storage_path |-> IF recorded THEN StoragePath(1, <<"RE", 1>>) ELSE Null]

StoredSessions ==
    { StoredSession(<<"CA", 1>>, st, FALSE) :
        st \in {"initiated", "calling", "in_progress", "completed"} }
      \cup { StoredSession(<<"CA", 1>>, st, TRUE) :
               st \in {"recorded", "transcribing", "transcribed", "failed", "completed"} }
      \cup { StoredSession(Null, st, FALSE) : st \in {"initiated", "completed"} }

\* The cleanup handler alone: the table holds no row or one of the rows above,
\* and the queue holds the cleanup tasks of "c1".
InitCleanup ==
    /\ pending_calls = << >>
    /\ processed_answered_calls = {}
    /\ \E n \in 1..MaxTasks : tasks = [t \in {CleanupTask("c1")} |-> n]
    /\ sessions \in {<< >>} \cup { << r >> : r \in StoredSessions }
    /\ calls \in { << c >> : c \in {"in-progress", "completed"} }
    /\ effects = << >>
    /\ spy_count = [c \in CallIds |-> 0]
    /\ cleanup_dispatched = [c \in CallIds |-> TRUE]
    /\ poll = PollIdle
    /\ harvest = HarvestIdle
    /\ ws = "connecting" /\ retry_count = 0 /\ wait_time = 0
    /\ failed_before_connect = 0 /\ waits_since_connect = 0
    /\ ctl = "running" /\ flag = TRUE /\ flag_checks = 1 /\ signal_at = "none"
    /\ credentials = [username |-> TRUE, password |-> TRUE]
    /\ inbox = << >> /\ current = Null /\ arrived = << >> /\ processed = << >>

SpecCleanup == InitCleanup /\ [][RunCleanupSpyCall]_vars

\* The poll loop alone, for every first hit and every failing request.
InitPoll ==
    /\ pending_calls = << >>
    /\ processed_answered_calls = {}
    /\ tasks = EmptyBag
    /\ sessions = << >>
    /\ calls = << >>
    /\ effects = << >>
    /\ spy_count = [c \in CallIds |-> 0]
    /\ cleanup_dispatched = [c \in CallIds |-> FALSE]
    /\ poll \in { PollStart(p) : p \in PollCases }
    /\ harvest = HarvestIdle
    /\ ws = "connecting" /\ retry_count = 0 /\ wait_time = 0
    /\ failed_before_connect = 0 /\ waits_since_connect = 0
    /\ ctl = "running" /\ flag = TRUE /\ flag_checks = 1 /\ signal_at = "none"
    /\ credentials = [username |-> TRUE, password |-> TRUE]
    /\ inbox = << >> /\ current = Null /\ arrived = << >> /\ processed = << >>

SpecPoll == InitPoll /\ [][PollStep]_vars /\ WF_vars(PollStep)

\* The correlation engine alone, fed the events of two calls.
SpecEngine == Init /\ [][Feed]_vars

\* The correlation engine alone, fed the events of one call of any kind.
SpecCall == Init /\ [][FeedCall]_vars

(***************************************************************************)
(* Properties of the correlation engine.                                   *)
(***************************************************************************)

\* C1: for every callId, at most one Spy signal (one successful enqueue of
\* start_spy_call, or one fallback initiate_spy_call) is emitted between two
\* consecutive terminated events of that callId and before the first one,
\* whatever duplicate answered or further new/ringing events arrive.
C1_AtMostOneSpy == \A c \in CallIds : spy_count[c] <= 1

\* A repeated answered event of "c1" was absorbed after its Spy signal.
C1_Witness ==
    /\ spy_count["c1"] = 1
    /\ effects = << [op |-> "log", tag |-> "PBX-ANSWERED-DUPLICATE", about |-> "c1"] >>

\* C2: every terminated event that carries a callId emits exactly one Cleanup
\* signal, for that callId, whether or not the call was tracked or answered,
\* and leaves the callId in neither pending_calls nor processed_answered_calls.
C2_TerminatedCleansUp ==
    [][\A e \in EventInputs :
         (e.event = "terminated" /\ process_buffalo_event(e)) =>
            /\ Cardinality(CleanupSignals(effects')) = 1
            /\ \A i \in CleanupSignals(effects') :
                  effects'[i].buffalo_call_id = CallIdOf(e)
            /\ CallIdOf(e) \notin DOMAIN pending_calls'
            /\ CallIdOf(e) \notin processed_answered_calls']_vars

\* The terminated event of "c1" came after its Spy signal was dispatched, and
\* the terminated event of "c2" came for a call that was never answered.
C2_Witness ==
    /\ \E i \in CleanupSignals(effects) : effects[i].buffalo_call_id = "c1"
    /\ \E t \in BagToSet(tasks) :
          t.kind = "start_spy_call" /\ t.payload.buffaloCallId = "c1"
    /\ CleanupTask("c2") \in BagToSet(tasks)
    /\ ~\E t \in BagToSet(tasks) :
          t.kind = "start_spy_call" /\ t.payload.buffaloCallId = "c2"
    /\ sessions = << >>
    /\ "c1" \notin DOMAIN pending_calls /\ "c1" \notin processed_answered_calls

\* C4: pending_calls and processed_answered_calls never hold the same callId:
\* no PendingCall outlives the ring phase of its call.
C4_PendingNotProcessed ==
    \A c \in CallIds :
      ~(c \in DOMAIN pending_calls /\ c \in processed_answered_calls)

\* The snapshot a tracked call of the sample feed is expected to carry.
ExpectedSnapshot(stype) ==
    IF stype = "phone"
    THEN [spyNumber |-> AgentExt, direction |-> "OUTBOUND", caller |-> "Agent A",
          destNum |-> DidNum]
    ELSE [spyNumber |-> AgentExt2, direction |-> "INBOUND", caller |-> "Jane Customer",
          destNum |-> AgentExt2]

SnapshotOf(call_details) ==
    [spyNumber |-> call_details.spyNumber, direction |-> call_details.direction,
     caller |-> call_details.caller, destNum |-> call_details.destNum]

Fresh(c) == c \notin DOMAIN pending_calls /\ c \notin processed_answered_calls

\* C3: for a call tracked by a new event of stype phone or external, the
\* sequence new, answered, terminated of one callId yields exactly one Spy
\* signal carrying the PendingCall snapshot, then exactly one Cleanup signal
\* for the callId, and afterwards neither map holds the callId.  Stated step by
\* step, each step's postcondition being the next one's precondition: the new
\* event of a fresh callId stores the snapshot and emits nothing; answered
\* emits one Spy signal with the stored snapshot and moves the callId from
\* pending_calls to the guard; terminated emits one Cleanup signal and clears both.
C3_NewAnsweredTerminated ==
    [][\A e \in CallEventInputs :
         LET c == CallIdOf(e) IN
           /\ (/\ e.event = "new" /\ Fresh(c)
               /\ (e.snumber = AgentExt \/ (e.cnumber = DidNum /\ e.dnumber = AgentExt2))
               /\ process_buffalo_event(e)) =>
                 /\ c \in DOMAIN pending_calls'
                 /\ SnapshotOf(pending_calls'[c]) = ExpectedSnapshot(e.stype)
                 /\ pending_calls'[c].callId = c
                 /\ c \notin processed_answered_calls'
                 /\ SpySignals(effects') = {} /\ CleanupSignals(effects') = {}
           /\ (/\ e.event = "answered" /\ c \in DOMAIN pending_calls
               /\ c \notin processed_answered_calls
               /\ process_buffalo_event(e)) =>
                 /\ Cardinality(SpySignals(effects')) = 1
                 /\ \A i \in SpySignals(effects') :
                       /\ effects'[i].call_details = pending_calls[c]
                       /\ effects'[i].extension = pending_calls[c].spyNumber
                 /\ CleanupSignals(effects') = {}
                 /\ c \notin DOMAIN pending_calls'
                 /\ c \in processed_answered_calls'
           /\ (/\ e.event = "terminated" /\ c \notin DOMAIN pending_calls
               /\ c \in processed_answered_calls
               /\ process_buffalo_event(e)) =>
                 /\ Cardinality(CleanupSignals(effects')) = 1
                 /\ \A i \in CleanupSignals(effects') : effects'[i].buffalo_call_id = c
                 /\ SpySignals(effects') = {}
                 /\ c \notin DOMAIN pending_calls'
                 /\ c \notin processed_answered_calls']_vars

\* The incoming call "c1" went through new, answered and terminated: its Spy
\* task with the snapshot and its Cleanup task are queued, the maps are empty.
C3_Witness ==
    /\ effects = << [op |-> "enqueue_cleanup_spy_call_task", ok |-> TRUE,
                     buffalo_call_id |-> "c1"] >>
    /\ BagCardinality(tasks) = 2
    /\ \E t \in BagToSet(tasks) :
          /\ t.kind = "start_spy_call"
          /\ t.payload.extension = AgentExt2 /\ t.payload.direction = "INBOUND"
          /\ t.payload.caller = "Jane Customer" /\ t.payload.destNum = AgentExt2
          /\ t.payload.buffaloCallId = "c1"
    /\ pending_calls = << >> /\ processed_answered_calls = {}

\* C7: no Spy signal is ever emitted whose agent extension is the configured
\* own extension, also when a queue-typed ring event set the extension last.
C7_NeverSpyOnSelf ==
    \A i \in SpySignals(effects) : effects[i].extension # sip_username

\* C8: a new/ringing event of stype phone or external whose derived agent
\* extension is the own extension creates no PendingCall and leaves
\* pending_calls and processed_answered_calls unchanged.
C8_OwnExtensionSkipped ==
    [][\A e \in CallEventInputs :
         (/\ e.event \in {"new", "ringing"}
          /\ e.stype \in {"phone", "external"}
          /\ AgentOf(e) = sip_username
          /\ process_buffalo_event(e)) =>
            /\ pending_calls' = pending_calls
            /\ processed_answered_calls' = processed_answered_calls]_vars

\* An event of the own extension was skipped while no call was tracked.
C8_Witness ==
    /\ effects = << [op |-> "log", tag |-> "PBX-SKIP", about |-> sip_username] >>
    /\ pending_calls = << >>
    /\ processed_answered_calls = {"c1"}

\* C9: on a Spy signal, a successful enqueue of start_spy_call makes no
\* provider call in the event flow; a failed enqueue runs initiate_spy_call
\* with the same extension and snapshot in-process exactly once; in both
\* cases, whether or not the fallback succeeds, the PendingCall is removed.
C9_EnqueueOrFallback ==
    [][\A e \in CallEventInputs :
         LET c == CallIdOf(e) IN
         (/\ e.event = "answered"
          /\ c \in DOMAIN pending_calls /\ c \notin processed_answered_calls
          /\ process_buffalo_event(e)) =>
            LET d == pending_calls[c]
                direct == { i \in DOMAIN effects' : effects'[i].op = "initiate_spy_call" }
            IN  /\ effects'[1].op = "enqueue_start_spy_call_task"
                /\ effects'[1].ok =>
                      /\ direct = {}
                      /\ calls' = calls /\ sessions' = sessions
                      /\ tasks' = tasks (+) SetToBag({StartSpyTask(d.spyNumber, d)})
                /\ ~effects'[1].ok =>
                      /\ Cardinality(direct) = 1
                      /\ \A i \in direct : /\ effects'[i].extension = d.spyNumber
                                            /\ effects'[i].call_details = d
                      /\ Len(calls') <= Len(calls) + 1
                      /\ tasks' = tasks
                /\ c \notin DOMAIN pending_calls']_vars

\* The enqueue failed, the fallback initiation failed as well, and the
\* PendingCall of "c1" is gone.
C9_Witness ==
    /\ Len(effects) = 2
    /\ effects[1].op = "enqueue_start_spy_call_task" /\ ~effects[1].ok
    /\ effects[2].op = "initiate_spy_call" /\ ~effects[2].ok
    /\ effects[2].call_details.callId = "c1"
    /\ "c1" \notin DOMAIN pending_calls
    /\ "c1" \in processed_answered_calls

(***************************************************************************)
(* Properties of the task handlers and of the whole flow.                  *)
(***************************************************************************)
Harvest(eff) ==
    { i \in DOMAIN eff :
        eff[i].op \in {"hangup_call", "download_twilio_recording",
                       "upload_recording_to_storage"} }

\* C5: cleanup is idempotent once the recording is persisted: a run of the
\* cleanup handler for a buffaloCallId whose sessions all hold recording_sid
\* and audio_storage_path performs no hangup, no download and no upload, and
\* leaves sessions and calls as they are.
C5_CleanupIdempotent ==
    [][(/\ sessions # << >>
        /\ \A i \in DOMAIN sessions :
              /\ sessions[i].recording_sid # Null
              /\ sessions[i].audio_storage_path # Null
        /\ RunCleanupSpyCall) =>
          /\ Harvest(effects') = {}
          /\ sessions' = sessions
          /\ calls' = calls]_vars

\* A cleanup task of "c1" ran on the session whose recording an earlier run
\* had persisted: it looked the session up and did nothing else.
C5_Witness ==
    /\ effects = << [op |-> "select_session", buffalo_call_id |-> "c1"] >>
    /\ Len(sessions) = 1
    /\ sessions[1].status = "recorded"
    /\ sessions[1].recording_sid = <<"RE", 1>>
    /\ sessions[1].audio_storage_path = StoragePath(1, <<"RE", 1>>)

\* C6: once the Spy and the Cleanup signal of a call were dispatched and the
\* task layer has executed every task, in whatever order, the spy call is hung
\* up and its session has left the active statuses.  Checked at the end of the
\* run of the start-spy-call handler that finds the engine idle, the queue
\* empty and the cleanup of its call dispatched: the terminated event was
\* processed and its cleanup task has been executed before.
C6_SpyCallHungUp ==
    (/\ tasks = EmptyBag
     /\ pending_calls = << >> /\ processed_answered_calls = {}
     /\ Len(effects) = 1
     /\ effects[1].op = "initiate_spy_call" /\ effects[1].ok
     /\ cleanup_dispatched[effects[1].call_details.callId]) =>
       \A i \in DOMAIN sessions :
         /\ sessions[i].status \notin ActiveStatuses
         /\ calls[sessions[i].call_sid[2]] = "completed"

\* C10: when the enqueue of the cleanup task fails on a terminated event, the
\* direct cleanup leaves the sessions and the calls as a run of the dispatched
\* cleanup_spy_call handler from the same state would, under collaborators
\* that answer: hangup of the active call, poll, recording persisted with
\* status recorded (completed when there is none).  Checked where the direct
\* cleanup found the active session and its hangup went through.
C10_FallbackAsDispatched ==
    [][\A e \in FlowEventInputs :
         (/\ e.event = "terminated"
          /\ process_buffalo_event(e)
          /\ Len(effects') = 3
          /\ effects'[2].op = "cleanup_spy_call"
          /\ effects'[3].op = "hangup_call" /\ effects'[3].ok) =>
            \E env \in HealthyEnvs(CallIdOf(e)) :
              LET r == CleanupSpyCallView_post([buffaloCallId |-> CallIdOf(e)], env)
              IN  r.sessions = sessions' /\ r.calls = calls']_vars

\* The poll of the last handler run that ended without a recording.
EmptyPolls(eff) ==
    { i \in DOMAIN eff : eff[i].op = "list_recordings" /\ ~eff[i].found }

\* C11: the cleanup handler sets a session to status completed without a
\* recording only when the whole poll window (max_poll_time, in steps of
\* poll_interval) has elapsed without a recording listed, never while poll
\* time remains.
C11_CompletedOnlyAfterWindow ==
    \A i \in EmptyPolls(effects) :
      (\E j \in DOMAIN sessions :
          /\ sessions[j].call_sid = effects[i].call_sid
          /\ sessions[j].status = "completed") =>
        effects[i].elapsed_time >= max_poll_time

FailedTransfers(eff) ==
    { i \in DOMAIN eff :
        /\ eff[i].op \in {"download_twilio_recording", "upload_recording_to_storage"}
        /\ ~eff[i].ok }

Triggers(eff) == { i \in DOMAIN eff : eff[i].op = "trigger_transcription" }

\* C12: when a recording is found but its download or its upload fails, the
\* cleanup handler answers with a failure, so that the task stays with the task
\* layer, leaves recording_sid, audio_storage_path and status of the session
\* unchanged and dispatches no transcription trigger.
C12_TransferFailureIsHard ==
    [][(FailedTransfers(effects') # {} /\ RunCleanupSpyCall) =>
          /\ sessions' = sessions
          /\ Triggers(effects') = {}
          /\ tasks' = tasks]_vars

\* The upload of the recording of "c1" failed: the session is as it was and
\* the cleanup task is still queued.
C12_Witness ==
    /\ \E i \in FailedTransfers(effects) : effects[i].op = "upload_recording_to_storage"
    /\ Len(sessions) = 1
    /\ sessions[1].status = "initiated"
    /\ sessions[1].recording_sid = Null /\ sessions[1].audio_storage_path = Null
    /\ CleanupTask("c1") \in BagToSet(tasks)

\* C13: every session the cleanup handler moves to status recorded has a
\* transcription trigger dispatched for it before the handler reports success.
C13_RecordedIsTriggered ==
    \A i \in DOMAIN effects :
      (/\ effects[i].op = "upload_recording_to_storage" /\ effects[i].ok
       /\ \E j \in DOMAIN sessions :
             /\ sessions[j].status = "recorded"
             /\ sessions[j].audio_storage_path = effects[i].storage_path) =>
        \E k \in Triggers(effects) : effects[k].ok

\* C14: the cleanup handler is a successful no-op (no hangup, no poll, no
\* session update, the task completed) when no session exists for the
\* buffaloCallId, and when the session has no recording and no call_sid.
C14_NothingToCleanUp ==
    [][(/\ RunCleanupSpyCall
        /\ effects' # << >>
        /\ \/ SessionsOf("c1") = {}
           \/ \A i \in SessionsOf("c1") :
                /\ sessions[i].call_sid = Null
                /\ sessions[i].recording_sid = Null
                /\ sessions[i].audio_storage_path = Null) =>
          /\ effects' = << [op |-> "select_session", buffalo_call_id |-> "c1"] >>
          /\ sessions' = sessions
          /\ calls' = calls
          /\ tasks' = tasks (-) SetToBag({CleanupTask("c1")})]_vars

\* The only cleanup task of "c1" ran on a session without call_sid and is
\* completed; the session and the call are as they were.
C14_Witness ==
    /\ effects = << [op |-> "select_session", buffalo_call_id |-> "c1"] >>
    /\ Len(sessions) = 1
    /\ sessions[1].call_sid = Null /\ sessions[1].status = "initiated"
    /\ calls = << "in-progress" >>
    /\ tasks = EmptyBag

Hangups(eff) == { i \in DOMAIN eff : eff[i].op = "hangup_call" }
Polls(eff) == { i \in DOMAIN eff : eff[i].op = "list_recordings" }

\* C15: in the cleanup handler, for a session that reaches the hangup step (it
\* has a call_sid and no stored recording), a hangup is issued against the
\* provider if and only if the status is initiated, calling or in_progress;
\* whatever the hangup reports, the poll for the recording runs after it.
C15_HangupIffActive ==
    [][(/\ RunCleanupSpyCall
        /\ effects' # << >>
        /\ Len(sessions) = 1
        /\ sessions[1].call_sid # Null
        /\ ~(sessions[1].recording_sid # Null /\ sessions[1].audio_storage_path # Null)) =>
          /\ Hangups(effects') # {}
                <=> sessions[1].status \in {"initiated", "calling", "in_progress"}
          /\ \A i \in Hangups(effects') : effects'[i].call_sid = sessions[1].call_sid
          /\ Cardinality(Hangups(effects')) <= 1
          /\ Polls(effects') # {}
          /\ \A i \in Hangups(effects'), j \in Polls(effects') : i < j]_vars

\* The hangup reported a failure and the call is still in progress; the poll
\* ran after it, found the recording, and the session is recorded.
C15_Witness ==
    /\ \E i \in Hangups(effects) : ~effects[i].ok
    /\ Polls(effects) # {}
    /\ Len(sessions) = 1
    /\ sessions[1].status = "recorded"
    /\ calls = << "in-progress" >>

\* C16: the recording poll loop always terminates; it issues at most 30
\* recordings-list requests (300 s in steps of 10 s), stops at the first
\* request that returns a recording and never polls again after a hit.
C16_PollTerminates ==
    /\ [](/\ poll.requests <= 30
          /\ poll.elapsed_time <= 300
          /\ poll.found =>
                (poll.pc = "done" /\ poll.requests = poll.ready_at)
          /\ (poll.ready_at # 0 /\ poll.requests >= poll.ready_at) =>
                (poll.pc = "done" /\ poll.requests = poll.ready_at)
          /\ poll.pc = "done" =>
                LET r == PollLoop(0, 0, [ready_at |-> poll.ready_at,
                                         error_at |-> poll.error_at])
                IN  /\ r.found = poll.found
                    /\ r.requests = poll.requests
                    /\ r.elapsed_time = poll.elapsed_time)
    /\ <>(poll.pc = "done")

\* The recording was listed by the 30th request, the last of the window.
C16_Witness ==
    /\ poll.pc = "done" /\ poll.found
    /\ poll.requests = 30 /\ poll.ready_at = 30
    /\ poll.elapsed_time = 290

\* The initiate_spy_call entries of a handler run.
Initiations(eff) ==
    { k \in 1..Len(eff) : eff[k].op = "initiate_spy_call" }

\* C17: a session row (status initiated) is inserted only in a step that
\* created the provider call, and carries the sid of that call; when the
\* creation of the provider call fails, initiate_spy_call returns a failure
\* result to its caller and no session row is persisted.
C17_SessionAfterCall ==
    [][/\ Len(sessions') > Len(sessions) =>
            /\ Len(sessions') = Len(sessions) + 1
            /\ Len(calls') = Len(calls) + 1
            /\ sessions'[Len(sessions')].status = "initiated"
            /\ sessions'[Len(sessions')].call_sid = <<"CA", Len(calls')>>
            /\ \A k \in Initiations(effects') : effects'[k].ok
       /\ (Initiations(effects') # {} /\ calls' = calls /\ RunStartSpyCall) =>
            /\ sessions' = sessions
            /\ \A k \in Initiations(effects') : ~effects'[k].ok
            /\ tasks' = tasks]_vars

\* The provider refused the first spy call: the handler ran, no call and no
\* session exist, and the start task is still queued.
C17_Witness ==
    /\ Initiations(effects) # {}
    /\ \A k \in Initiations(effects) : ~effects[k].ok
    /\ calls = << >> /\ sessions = << >>
    /\ \E t \in BagToSet(tasks) : t.kind = "start_spy_call"

\* C18: with max_reconnect_delay = 60 the k-th wait in a row of waits without
\* a successful connection in between is 2, 4, 8, 16, 32, 60, 60, ... seconds,
\* and no wait exceeds max_reconnect_delay.
C18_BackoffSequence ==
    /\ wait_time <= 60
    /\ ws = "waiting" =>
         /\ waits_since_connect >= 1
         /\ wait_time = IF waits_since_connect <= 7
                        THEN <<2, 4, 8, 16, 32, 60, 60>>[waits_since_connect]
                        ELSE 60

\* The seventh wait in a row: 60 seconds, as the sixth.
C18_Witness ==
    /\ ws = "waiting"
    /\ waits_since_connect = 7
    /\ wait_time = 60

\* C19: every successful connection resets the attempt counter to zero, it
\* stays zero while the connection lasts, and the wait after the end of that
\* connection is the first backoff value, 2 seconds, however many waits
\* preceded the connection.
C19_ResetOnConnect ==
    [][/\ ws' = "connected" => retry_count' = 0
       /\ (ws = "connected" /\ ws' # "connected") =>
            /\ ws' = "waiting"
            /\ retry_count' = 1
            /\ wait_time' = 2]_vars

\* Six waits, up to the capped one, preceded the connection that has just
\* ended; the wait that follows is 2 seconds.
C19_Witness ==
    /\ ws = "waiting"
    /\ failed_before_connect >= 6
    /\ waits_since_connect = 1
    /\ retry_count = 1 /\ wait_time = 2

\* C20: while connected, a message that is not JSON, or one whose processing
\* raises, leaves the connection as it is (no backoff step, the loop still
\* reads from the same connection); a message that is not JSON also leaves
\* pending_calls and processed_answered_calls unchanged and emits no signal.
C20_BadMessageKeepsConnection ==
    [][\A m \in Messages :
         (m.kind # "object" /\ ReceiveMessage(m)) =>
            /\ ws' = "connected"
            /\ UNCHANGED connection
            /\ m.kind = "text" =>
                 /\ UNCHANGED <<pending_calls, processed_answered_calls, tasks,
                                spy_count, cleanup_dispatched, sessions, calls>>
                 /\ SpySignals(effects') = {}
                 /\ CleanupSignals(effects') = {}]_vars

\* A message whose processing raised arrived while a call was tracked: the
\* error is logged, the call is still tracked and the connection is the one
\* that was opened after two failed attempts.
C20_Witness ==
    /\ ws = "connected" /\ retry_count = 0
    /\ failed_before_connect = 2
    /\ effects = << [op |-> "log", tag |-> "PBX-MONITOR-EVENT-ERROR", about |-> "value"] >>
    /\ "c1" \in DOMAIN pending_calls

(***************************************************************************)
(* Properties of the control loop.                                         *)
(***************************************************************************)

\* C22: the control loop honours the flag: once the flag is disabled while
\* the Connection Manager runs, the manager eventually stops running, unless
\* the flag is enabled again first.
C22_DisabledStopsManager ==
    (~flag /\ ctl = "running") ~> (ctl # "running" \/ flag)

\* C23: a termination signal, wherever it finds the process (flag check,
\* manager connecting, reading, processing a message or backing off, either
\* sleep of the control loop), ends run_pbx_monitor: no except clause keeps
\* the interrupt, and the loop, once left, is never entered again.
C23_SignalEndsMonitor ==
    /\ [](signal_at # "none" => (ctl = "stopped" /\ ws = "off"))
    /\ [][ctl = "stopped" => (ctl' = "stopped" /\ ws' = "off")]_vars

\* The signal arrived while a message was being processed, inside both
\* "except Exception" clauses of the manager, with a call tracked.
C23_Witness ==
    /\ signal_at = "message"
    /\ ctl = "stopped"
    /\ "c1" \in DOMAIN pending_calls

\* C24: when the feed username or password is missing, the Connection
\* Manager never connects: on every pass of the control loop no websocket
\* connection is attempted and no event is processed.
C24_NoCredentialsNoConnection ==
    ~(credentials.username /\ credentials.password) =>
        /\ ws = "off"
        /\ ctl # "running"
        /\ effects = << >>
        /\ pending_calls = << >>
        /\ processed_answered_calls = {}
        /\ tasks = EmptyBag

\* The password is missing, the flag is enabled, and the control loop sleeps
\* after its second pass or a later one.
C24_Witness ==
    /\ credentials.username /\ ~credentials.password
    /\ flag
    /\ flag_checks >= 2
    /\ ctl = "sleeping"

(***************************************************************************)
(* Properties of the message loop.                                         *)
(***************************************************************************)

\* The messages of the connection in arrival order: those processed, the one
\* in the loop body, those not yet taken.
InOrder ==
    processed \o (IF current = Null THEN << >> ELSE << current >>) \o inbox

\* C21: events are processed one at a time in arrival order: a message is
\* taken from the connection only when the processing of the one before it,
\* fallback spy initiation and fallback cleanup included, has ended, and
\* pending_calls and processed_answered_calls change only in the step that
\* ends the processing of the one message in the loop body.
C21_OneAtATime ==
    /\ [](InOrder = arrived)
    /\ [][(\/ pending_calls' # pending_calls
            \/ processed_answered_calls' # processed_answered_calls
            \/ tasks' # tasks
            \/ calls' # calls) =>
              /\ current # Null /\ current' = Null
              /\ processed' = Append(processed, current)
              /\ inbox' = inbox]_vars

\* The answered event was processed with the fallback spy initiation while
\* the terminated event was waiting on the connection.
C21_Witness ==
    /\ Len(processed) = 2
    /\ processed[2].kind = "object" /\ processed[2].event.event = "answered"
    /\ \E k \in DOMAIN effects : effects[k].op = "initiate_spy_call"
    /\ Len(inbox) = 1
    /\ inbox[1].kind = "object" /\ inbox[1].event.event = "terminated"
    /\ current = Null

(***************************************************************************)
(* Properties of the tracking of new and ringing events.                   *)
(***************************************************************************)

\* The step processed one more event of the feed.
Stepped == Len(processed') = Len(processed) + 1

\* C25: a new/ringing event of stype queue for a callId without PendingCall
\* creates no PendingCall, emits no signal and leaves pending_calls and
\* processed_answered_calls unchanged; the handler returns without an error.
C25_QueueUntracked ==
    [][(/\ Stepped
        /\ LET e == processed'[Len(processed')].event IN
             /\ e.event \in {"new", "ringing"}
             /\ e.stype = "queue"
             /\ CallIdOf(e) \notin DOMAIN pending_calls) =>
          /\ pending_calls' = pending_calls
          /\ processed_answered_calls' = processed_answered_calls
          /\ effects' = << >>
          /\ tasks' = tasks /\ calls' = calls /\ sessions' = sessions]_vars

\* A queue ring with an agent's extension was the first event of "c1", while
\* "c2" was tracked: "c1" is still untracked.
C25_Witness ==
    /\ Len(processed) = 2
    /\ processed[1].event.callid = "c2"
    /\ processed[2].event.stype = "queue" /\ processed[2].event.callid = "c1"
    /\ processed[2].event.dnumber = AgentExt
    /\ DOMAIN pending_calls = {"c2"}

\* C26: a new/ringing event of stype queue for a callId with a PendingCall
\* and a dnumber overwrites the spyNumber of that PendingCall with dnumber and
\* nothing else: its other fields, the PendingCall of every other callId and
\* processed_answered_calls are unchanged, and no signal is emitted.
C26_QueueOverwritesAgent ==
    [][(/\ Stepped
        /\ LET e == processed'[Len(processed')].event IN
             /\ e.event \in {"new", "ringing"}
             /\ e.stype = "queue"
             /\ CallIdOf(e) \in DOMAIN pending_calls
             /\ e.dnumber # Absent /\ e.dnumber # << >>) =>
          LET e == processed'[Len(processed')].event IN
          /\ pending_calls' = [pending_calls EXCEPT ![CallIdOf(e)].spyNumber = e.dnumber]
          /\ processed_answered_calls' = processed_answered_calls
          /\ effects' = << >>
          /\ tasks' = tasks /\ calls' = calls /\ sessions' = sessions]_vars

\* Both calls were tracked for the agent; the queue ring of "c1" moved "c1"
\* to the number the queue routed to and left "c2" alone.
C26_Witness ==
    /\ Len(processed) = 3
    /\ processed[3].event.stype = "queue" /\ processed[3].event.dnumber = DidNum
    /\ DOMAIN pending_calls = {"c1", "c2"}
    /\ pending_calls["c1"].spyNumber = DidNum
    /\ pending_calls["c1"].direction = "INBOUND"
    /\ pending_calls["c1"].cnumber = AgentExt
    /\ pending_calls["c1"].dnumber = Absent
    /\ pending_calls["c2"].spyNumber = AgentExt

\* The DID test of the rule, on the digits of a number.
LooksLikeDid(n) == n # Absent /\ n # << >> /\ Len(n) = 10 /\ n[1] = 7

\* The agent the rule names for an event.
RuleAgent(e) ==
    IF e.stype = "phone"
    THEN (IF LooksLikeDid(e.snumber) THEN e.dnumber ELSE e.snumber)
    ELSE (IF LooksLikeDid(e.cnumber) THEN e.dnumber ELSE e.cnumber)

\* C27: for a new/ringing event of stype phone the tracked PendingCall has
\* direction OUTBOUND and agent (snumber is a DID ? dnumber : snumber), for
\* stype external direction INBOUND and agent (cnumber is a DID ? dnumber :
\* cnumber), whichever of the numbers are DIDs, extensions or absent; an
\* event whose agent is absent tracks nothing.
C27_DirectionAndAgent ==
    [][(/\ Stepped
        /\ processed'[Len(processed')].event.event \in {"new", "ringing"}
        /\ processed'[Len(processed')].event.stype \in {"phone", "external"}) =>
          LET e == processed'[Len(processed')].event
              c == CallIdOf(e)
          IN  IF RuleAgent(e) = Absent
              THEN pending_calls' = pending_calls
              ELSE /\ c \in DOMAIN pending_calls'
                   /\ pending_calls'[c].spyNumber = RuleAgent(e)
                   /\ pending_calls'[c].direction =
                        (IF e.stype = "phone" THEN "OUTBOUND" ELSE "INBOUND")
                   /\ \A x \in DOMAIN pending_calls' \ {c} :
                        x \in DOMAIN pending_calls /\ pending_calls'[x] = pending_calls[x]]_vars

\* An external call whose cnumber is a DID is tracked for its dnumber, after
\* an agent's call to a DID was tracked for its snumber.
C27_Witness ==
    /\ Len(processed) = 2
    /\ processed[1].event.stype = "phone" /\ processed[1].event.snumber = AgentExt
    /\ processed[2].event.stype = "external"
    /\ processed[2].event.cnumber = DidNum /\ processed[2].event.dnumber = AgentExt
    /\ "c1" \in DOMAIN pending_calls
    /\ pending_calls["c1"].direction = "INBOUND"
    /\ pending_calls["c1"].spyNumber = AgentExt

\* The answers of is_did in the last step.
DidAnswers == { k \in DOMAIN effects : effects[k].op = "is_did" }

\* C28: is_did(n) is true exactly when n is present, its string form starts
\* with '7' and has exactly 10 characters; it is false for absent and empty
\* values, for every other length and for every other first character.
C28_IsDid ==
    \A k \in DidAnswers :
      LET n == effects[k].num IN
      /\ effects[k].result <=> LooksLikeDid(n)
      /\ n \in {Absent, << >>} => ~effects[k].result
      /\ n = <<7, 0, 0, 1, 2, 3, 4, 5, 6, 7>> => effects[k].result
      /\ n = <<0, 2, 9, 2, 0, 9, 9, 7>> => ~effects[k].result
      /\ n = <<7, 1, 2, 3, 4, 5, 6>> => ~effects[k].result
      /\ (n \notin {Absent, << >>} /\ Len(n) = 11) => ~effects[k].result

\* is_did was asked about eleven digits that start with 7, and answered no.
C28_Witness ==
    /\ DidAnswers # {}
    /\ \A k \in DidAnswers :
         /\ Len(effects[k].num) = 11
         /\ effects[k].num[1] = 7
         /\ ~effects[k].result

(***************************************************************************)
(* Properties of answered events, on the histories of the message loop.    *)
(***************************************************************************)

IsEvent(m, type) == m.kind = "object" /\ m.event.event = type

\* C29: an answered event for a callId without PendingCall, or for one that
\* is already in processed_answered_calls, is a no-op: no Spy signal, no
\* error, pending_calls and processed_answered_calls as they were.
C29_AnsweredMiss ==
    [][(/\ current # Null /\ current' = Null
        /\ IsEvent(current, "answered")
        /\ \/ CallIdOf(current.event) \notin DOMAIN pending_calls
           \/ CallIdOf(current.event) \in processed_answered_calls) =>
          /\ pending_calls' = pending_calls
          /\ processed_answered_calls' = processed_answered_calls
          /\ SpySignals(effects') = {}
          /\ \A k \in DOMAIN effects' : effects'[k].op = "log" =>
                effects'[k].tag = "PBX-ANSWERED-DUPLICATE"
          /\ tasks' = tasks /\ calls' = calls /\ sessions' = sessions
          /\ ws' = ws]_vars

\* The call was answered, announced again by a new event and answered again:
\* the second answered found the PendingCall and the guard, and was skipped.
C29_Witness ==
    /\ Len(processed) = 4
    /\ IsEvent(processed[1], "new") /\ IsEvent(processed[2], "answered")
    /\ IsEvent(processed[3], "new") /\ IsEvent(processed[4], "answered")
    /\ effects = << [op |-> "log", tag |-> "PBX-ANSWERED-DUPLICATE", about |-> "c1"] >>
    /\ "c1" \in DOMAIN pending_calls
    /\ "c1" \in processed_answered_calls
    /\ spy_count["c1"] = 1

\* The last message processed is the first answered event after a new event
\* that followed a terminated event of the same call.
ReusedAndAnswered ==
    LET n == Len(processed) IN
    /\ n >= 3
    /\ IsEvent(processed[n], "answered")
    /\ \E i \in 1..n : \E j \in 1..n :
         /\ i < j /\ j < n
         /\ IsEvent(processed[i], "terminated")
         /\ IsEvent(processed[j], "new")
         /\ \A l \in (i + 1)..(n - 1) :
              ~IsEvent(processed[l], "answered") /\ ~IsEvent(processed[l], "terminated")

\* C30: a callId can be used again after its call ended: once terminated was
\* processed, a later new event of an agent's call followed by answered emits
\* a Spy signal for the callId, whether or not the earlier call was answered.
C30_CallIdReuse ==
    ReusedAndAnswered =>
        /\ SpySignals(effects) # {}
        /\ \A k \in SpySignals(effects) : effects[k].call_details.callId = "c1"
        /\ "c1" \in processed_answered_calls
        /\ "c1" \notin DOMAIN pending_calls

\* new, answered, terminated, and the same callId again: new, answered, with
\* a Spy signal for the second call.
C30_Witness ==
    /\ Len(processed) = 5
    /\ IsEvent(processed[1], "new") /\ IsEvent(processed[2], "answered")
    /\ IsEvent(processed[3], "terminated")
    /\ IsEvent(processed[4], "new") /\ IsEvent(processed[5], "answered")
    /\ SpySignals(effects) # {}


(***************************************************************************)
(* core.services.cloud_tasks: the two enqueue functions of the monitor,    *)
(* run against every state of the queue client.                            *)
(***************************************************************************)

\* What the functions find: the package imported, cloud_tasks.enabled, the
\* three names of the queue configured, the client constructed (or cached),
\* and create_task returning rather than raising.
QueueEnvs ==
    [available : BOOLEAN, enabled : BOOLEAN, configured : BOOLEAN,
     client_ok : BOOLEAN, create_task_ok : BOOLEAN]

\* The enabled switch left unread.
get_cloud_tasks_client_ignores_enabled(env) ==
    IF ~env.available THEN Null
    ELSE IF ~env.configured THEN Null
    ELSE IF env.client_ok THEN <<"client">> ELSE Null

get_cloud_tasks_client(env) ==
    IF ~env.available THEN Null
    ELSE IF ~env.enabled THEN Null
    ELSE IF ~env.configured THEN Null
    ELSE IF env.client_ok THEN <<"client">> ELSE Null

\* The keys the payload reads with a subscript; the others are read with get.
PayloadKeys == {"callId", "direction", "caller", "destNum", "spyNumber"}

Returned(value, submitted) ==
    [raised |-> FALSE, value |-> value, submitted |-> submitted]

\* An exception that leaves the function.
Escaped == [raised |-> TRUE, value |-> FALSE, submitted |-> {}]

\* The handler of the except clause formats call_details["callId"] itself.
enqueue_start_spy_call_task(extension, call_details, env) ==
    IF get_cloud_tasks_client(env) = Null THEN Returned(FALSE, {})
    ELSE IF ~(PayloadKeys \subseteq DOMAIN call_details)
    THEN (IF "callId" \in DOMAIN call_details THEN Returned(FALSE, {}) ELSE Escaped)
    ELSE IF env.create_task_ok
    THEN Returned(TRUE, {StartSpyTask(extension, call_details)})
    ELSE Returned(FALSE, {})

enqueue_cleanup_spy_call_task(buffalo_call_id, env) ==
    IF get_cloud_tasks_client(env) = Null THEN Returned(FALSE, {})
    ELSE IF env.create_task_ok
    THEN Returned(TRUE, {CleanupTask(buffalo_call_id)})
    ELSE Returned(FALSE, {})

\* The records the monitor passes: pending_calls entries of tracked calls.
CallDetailsInputs ==
    { PendingCall(e, CallIdOf(e)) :
        e \in { x \in CallEventInputs :
                  x.event = "new" /\ x.stype \in {"phone", "external"} } }

\* A full queue (the model's bound) accepts nothing more.
QueueEnvsNow ==
    { env \in QueueEnvs : env.create_task_ok => BagCardinality(tasks) < MaxTasks }

Enqueue(op, r, env) ==
    /\ tasks' = tasks (+) SetToBag(r.submitted)
    /\ effects' = << [op |-> op, ok |-> r.value, raised |-> r.raised,
                      submitted |-> r.submitted, env |-> env] >>
    /\ UNCHANGED <<pending_calls, processed_answered_calls, sessions, calls,
                   spy_count, cleanup_dispatched, poll, harvest, connection, control, stream>>

EnqueueStartSpyCall ==
    \E env \in QueueEnvsNow, call_details \in CallDetailsInputs :
        Enqueue("enqueue_start_spy_call_task",
                enqueue_start_spy_call_task(call_details.spyNumber, call_details, env),
                env)

EnqueueCleanupSpyCall ==
    \E env \in QueueEnvsNow, buffalo_call_id \in CallIds :
        Enqueue("enqueue_cleanup_spy_call_task",
                enqueue_cleanup_spy_call_task(buffalo_call_id, env), env)

SpecEnqueue == Init /\ [][EnqueueStartSpyCall \/ EnqueueCleanupSpyCall]_vars

\* The queue client is missing: no package, switched off, or not configured.
ClientUnavailable(env) == ~env.available \/ ~env.enabled \/ ~env.configured

\* C31: enqueue_start_spy_call_task and enqueue_cleanup_spy_call_task never
\* raise; they return False when the queue client is unavailable (package
\* missing, disabled, incomplete configuration) or when the submission
\* throws, and they return True only after the task was submitted.
C31_EnqueueNeverRaises ==
    \A i \in DOMAIN effects :
        LET x == effects[i] IN
        /\ ~x.raised
        /\ x.ok \in BOOLEAN
        /\ ClientUnavailable(x.env) => ~x.ok /\ x.submitted = {}
        /\ ~x.env.create_task_ok => ~x.ok /\ x.submitted = {}
        /\ x.ok => /\ Cardinality(x.submitted) = 1
                   /\ \A t \in x.submitted : BagIn(t, tasks)
                   /\ ~ClientUnavailable(x.env) /\ x.env.create_task_ok

\* The client is there and create_task raises: the cleanup enqueue answers False.
C31_Witness ==
    /\ Len(effects) = 1
    /\ effects[1].op = "enqueue_cleanup_spy_call_task"
    /\ ~ClientUnavailable(effects[1].env) /\ effects[1].env.client_ok
    /\ ~effects[1].env.create_task_ok
    /\ ~effects[1].ok /\ ~effects[1].raised


(***************************************************************************)
(* Properties of the answered branch when nothing could be dispatched.     *)
(***************************************************************************)

\* The enqueue answered False and the fallback answered success False.
BothFailed(eff) ==
    /\ Len(eff) = 2
    /\ eff[1].op = "enqueue_start_spy_call_task" /\ ~eff[1].ok
    /\ eff[2].op = "initiate_spy_call" /\ ~eff[2].ok

IsTerminatedMessage(m) == m.kind = "object" /\ m.event.event = "terminated"

\* The call was answered and nothing was queued or recorded for it.
AnsweredAndLost ==
    /\ "c1" \in processed_answered_calls
    /\ tasks = EmptyBag
    /\ sessions = << >>

\* C32: when the spy dispatch and its in-process fallback both fail for an
\* answered event, the message loop goes on as after any event (no error
\* entry, the connection kept), the PendingCall is removed and the callId is
\* in processed_answered_calls; from then on, until a terminated event of
\* the callId is processed, no event queues or initiates a spy call for it.
C32_LostWithoutError ==
    /\ [][ current # Null /\ current' = Null /\ BothFailed(effects')
             => /\ ws' = ws
                /\ current.event.callid \notin DOMAIN pending_calls'
                /\ current.event.callid \in processed_answered_calls'
                /\ \A i \in DOMAIN effects' : effects'[i].op # "log" ]_vars
    /\ [][ AnsweredAndLost /\ ~(current # Null /\ IsTerminatedMessage(current))
             => AnsweredAndLost' /\ calls' = calls ]_vars

\* Both failed, the call was tracked again, and its second answered event
\* was processed: nothing was queued, created or recorded.
C32_Witness ==
    /\ Len(processed) = 4
    /\ \A i \in 1..4 : processed[i].kind = "object"
    /\ processed[1].event.event = "new" /\ processed[2].event.event = "answered"
    /\ processed[3].event.event = "new" /\ processed[4].event.event = "answered"
    /\ AnsweredAndLost /\ calls = << >>
    /\ Len(effects) = 1 /\ effects[1].op = "log"


(***************************************************************************)
(* twilio.views.RecordingView.post and tasks.views.CleanupSpyCallView.post *)
(* for one session, statement by statement, with the transcription task    *)
(* (tasks.views.TranscribeAudioView.post) moving the status on.             *)
(***************************************************************************)
MaxCleanups == 2

\* Where the cleanup handler goes with the row its lookup returned.
CleanupAfterLookup(session_data) ==
    IF RecordingPersisted(session_data)
    THEN (IF session_data.status \in {"recorded", "transcribed", "completed"}
          THEN "done" ELSE "trigger")
    ELSE IF ~Truthy(session_data.call_sid) THEN "done"
    ELSE "hangup"

\* The update both handlers send once the recording is stored.
RecordedRow(row) ==
    [row EXCEPT !.recording_sid = <<"RE", row.call_sid[2]>>,
                !.audio_storage_path = StoragePath(row.id, <<"RE", row.call_sid[2]>>),
                !.status = "recorded"]

HarvestFrame ==
    UNCHANGED <<pending_calls, processed_answered_calls, tasks, effects, spy_count,
                cleanup_dispatched, poll, connection, control, stream>>

\* The provider posts the recording status callback of the ended call.
WebhookDeliver ==
    /\ harvest.webhook_pc = "idle"
    /\ calls[1] = "completed"
    /\ harvest' = [harvest EXCEPT !.webhook_pc = "lookup", !.webhooks = @ + 1]
    /\ UNCHANGED <<sessions, calls>> /\ HarvestFrame

\* select('id').eq('call_sid', call_sid)
WebhookLookup ==
    /\ harvest.webhook_pc = "lookup"
    /\ harvest' = [harvest EXCEPT !.webhook_pc =
                     IF \E i \in DOMAIN sessions : sessions[i].call_sid = <<"CA", 1>>
                     THEN "download" ELSE "done"]
    /\ UNCHANGED <<sessions, calls>> /\ HarvestFrame

WebhookDownload ==
    /\ harvest.webhook_pc = "download"
    /\ harvest' = [harvest EXCEPT !.webhook_pc = "upload", !.downloads = @ + 1]
    /\ UNCHANGED <<sessions, calls>> /\ HarvestFrame

WebhookUpload ==
    /\ harvest.webhook_pc = "upload"
    /\ harvest' = [harvest EXCEPT !.webhook_pc = "update", !.uploads = @ + 1]
    /\ UNCHANGED <<sessions, calls>> /\ HarvestFrame

WebhookUpdate ==
    /\ harvest.webhook_pc = "update"
    /\ sessions' = [sessions EXCEPT ![1] = RecordedRow(@)]
    /\ harvest' = [harvest EXCEPT !.webhook_pc = "trigger", !.recorded_writes = @ + 1]
    /\ UNCHANGED calls /\ HarvestFrame

WebhookTrigger ==
    /\ harvest.webhook_pc = "trigger"
    /\ harvest' = [harvest EXCEPT !.webhook_pc = "done", !.triggers = @ + 1,
                     !.triggers_when = Append(@, [by |-> "webhook", read |-> Null])]
    /\ UNCHANGED <<sessions, calls>> /\ HarvestFrame

\* The queue delivers a cleanup task; the next one starts when the last ended.
CleanupDeliver ==
    /\ harvest.cleanup_pc \in {"idle", "done"}
    /\ harvest.cleanups < MaxCleanups
    /\ harvest' = [harvest EXCEPT !.cleanup_pc = "lookup", !.cleanups = @ + 1,
                                  !.cleanup_read = Null]
    /\ UNCHANGED <<sessions, calls>> /\ HarvestFrame

\* select(...).eq('buffalo_call_id', buffalo_call_id), and the branch taken.
CleanupLookup ==
    /\ harvest.cleanup_pc = "lookup"
    /\ harvest' = [harvest EXCEPT !.cleanup_read = sessions[1],
                                  !.cleanup_pc = CleanupAfterLookup(sessions[1])]
    /\ UNCHANGED <<sessions, calls>> /\ HarvestFrame

CleanupHangup ==
    /\ harvest.cleanup_pc = "hangup"
    /\ IF harvest.cleanup_read.status \in ActiveStatuses
       THEN \E outcome \in HangupOutcomes :
              calls' = hangup_call(harvest.cleanup_read.call_sid, outcome).calls
       ELSE calls' = calls
    /\ harvest' = [harvest EXCEPT !.cleanup_pc = "poll"]
    /\ UNCHANGED sessions /\ HarvestFrame

\* The poll loop ends with the recording of the ended call, or without one.
CleanupPoll ==
    /\ harvest.cleanup_pc = "poll"
    /\ \/ /\ calls[1] = "completed"
          /\ harvest' = [harvest EXCEPT !.cleanup_pc = "download"]
          /\ UNCHANGED sessions
       \/ /\ harvest' = [harvest EXCEPT !.cleanup_pc = "done"]
          /\ sessions' = [sessions EXCEPT ![1].status = "completed"]
    /\ UNCHANGED calls /\ HarvestFrame

CleanupDownload ==
    /\ harvest.cleanup_pc = "download"
    /\ harvest' = [harvest EXCEPT !.cleanup_pc = "upload", !.downloads = @ + 1]
    /\ UNCHANGED <<sessions, calls>> /\ HarvestFrame

CleanupUpload ==
    /\ harvest.cleanup_pc = "upload"
    /\ harvest' = [harvest EXCEPT !.cleanup_pc = "update", !.uploads = @ + 1]
    /\ UNCHANGED <<sessions, calls>> /\ HarvestFrame

CleanupUpdate ==
    /\ harvest.cleanup_pc = "update"
    /\ sessions' = [sessions EXCEPT ![1] = RecordedRow(@)]
    /\ harvest' = [harvest EXCEPT !.cleanup_pc = "trigger", !.recorded_writes = @ + 1]
    /\ UNCHANGED calls /\ HarvestFrame

\* The trigger of either branch: for the stored recording, or after the update.
CleanupTrigger ==
    /\ harvest.cleanup_pc = "trigger"
    /\ harvest' = [harvest EXCEPT !.cleanup_pc = "done", !.triggers = @ + 1,
                     !.triggers_when =
                        Append(@, [by |-> "cleanup", read |-> harvest.cleanup_read])]
    /\ UNCHANGED <<sessions, calls>> /\ HarvestFrame

\* A triggered transcription task starts: the status becomes transcribing.
TranscribeStart ==
    /\ harvest.triggers > 0
    /\ sessions[1].status = "recorded"
    /\ sessions' = [sessions EXCEPT ![1].status = "transcribing"]
    /\ UNCHANGED <<harvest, calls>> /\ HarvestFrame

\* The transcription is saved.
TranscribeEnd ==
    /\ sessions[1].status = "transcribing"
    /\ sessions' = [sessions EXCEPT ![1].status = "transcribed"]
    /\ UNCHANGED <<harvest, calls>> /\ HarvestFrame

\* One session of a spy call, its provider call running or ended.
InitHarvest ==
    /\ pending_calls = << >>
    /\ processed_answered_calls = {}
    /\ tasks = EmptyBag
    /\ sessions \in { << StoredSession(<<"CA", 1>>, st, FALSE) >> :
                        st \in {"in_progress", "completed"} }
    /\ calls \in { << c >> : c \in {"in-progress", "completed"} }
    /\ effects = << >>
    /\ spy_count = [c \in CallIds |-> 0]
    /\ cleanup_dispatched = [c \in CallIds |-> TRUE]
    /\ poll = PollIdle
    /\ harvest = HarvestIdle
    /\ ws = "connecting" /\ retry_count = 0 /\ wait_time = 0
    /\ failed_before_connect = 0 /\ waits_since_connect = 0
    /\ ctl = "running" /\ flag = TRUE /\ flag_checks = 1 /\ signal_at = "none"
    /\ credentials = [username |-> TRUE, password |-> TRUE]
    /\ inbox = << >> /\ current = Null /\ arrived = << >> /\ processed = << >>

NextHarvest ==
    \/ WebhookDeliver \/ WebhookLookup \/ WebhookDownload \/ WebhookUpload
    \/ WebhookUpdate \/ WebhookTrigger
    \/ CleanupDeliver \/ CleanupLookup \/ CleanupHangup \/ CleanupPoll
    \/ CleanupDownload \/ CleanupUpload \/ CleanupUpdate \/ CleanupTrigger
    \/ TranscribeStart \/ TranscribeEnd

SpecHarvest == InitHarvest /\ [][NextHarvest]_vars

\* C33: for one session, with the recording webhook handler and the cleanup
\* handler running concurrently, the recording is downloaded and uploaded at
\* most once and the session is written to status recorded at most once.
C33_HarvestedOnce ==
    (harvest.webhooks <= 1 /\ harvest.cleanups <= 1) =>
        /\ harvest.downloads <= 1
        /\ harvest.uploads <= 1
        /\ harvest.recorded_writes <= 1

\* C35: the cleanup handler dispatches no transcription trigger when its
\* lookup finds the recording stored and the status recorded, transcribing,
\* transcribed or completed; across the webhook and any number of cleanup
\* invocations one after the other, transcription is triggered at most once.
C35_TriggeredOnce ==
    /\ \A i \in DOMAIN harvest.triggers_when :
          LET t == harvest.triggers_when[i] IN
          (t.by = "cleanup" /\ Truthy(t.read.recording_sid)
             /\ Truthy(t.read.audio_storage_path)) =>
            t.read.status \notin {"recorded", "transcribing", "transcribed", "completed"}
    /\ harvest.triggers <= 1


(***************************************************************************)
(* tasks.views.StartSpyCallView.post under the queue's delivery: a task is *)
(* delivered again after a 5xx answer, and may be delivered again after a  *)
(* 2xx answer (at-least-once).                                             *)
(***************************************************************************)
MaxProviderCalls == 3

\* The start_spy_call tasks the monitor enqueues for a tracked call.
StartSpyTasks ==
    { StartSpyTask(cd.spyNumber, [cd EXCEPT !.callId = c]) :
        cd \in { x \in CallDetailsInputs : ~IsOwnExtension(x.spyNumber) },
        c \in CallIds }

DeliverStartSpyCall ==
    \E t \in BagToSet(tasks) :
      /\ t.kind = "start_spy_call"
      /\ Len(calls) < MaxProviderCalls
      /\ \E create_ok \in BOOLEAN, insert_ok \in BOOLEAN, again \in BOOLEAN :
           LET r == StartSpyCallView_post(t.payload, create_ok, insert_ok)
           IN  /\ calls' = r.calls
               /\ sessions' = r.sessions
               /\ effects' = r.effects
               /\ tasks' = IF again THEN tasks ELSE Delivered(t, r.status)
      /\ UNCHANGED <<pending_calls, processed_answered_calls, spy_count,
                     cleanup_dispatched, poll, harvest, connection, control, stream>>

\* One start_spy_call task in the queue, nothing initiated yet.
InitRedelivery ==
    /\ pending_calls = << >>
    /\ processed_answered_calls = {}
    /\ \E t \in StartSpyTasks : tasks = SetToBag({t})
    /\ sessions = << >>
    /\ calls = << >>
    /\ effects = << >>
    /\ spy_count = [c \in CallIds |-> 0]
    /\ cleanup_dispatched = [c \in CallIds |-> FALSE]
    /\ poll = PollIdle
    /\ harvest = HarvestIdle
    /\ ws = "connecting" /\ retry_count = 0 /\ wait_time = 0
    /\ failed_before_connect = 0 /\ waits_since_connect = 0
    /\ ctl = "running" /\ flag = TRUE /\ flag_checks = 1 /\ signal_at = "none"
    /\ credentials = [username |-> TRUE, password |-> TRUE]
    /\ inbox = << >> /\ current = Null /\ arrived = << >> /\ processed = << >>

SpecRedelivery == InitRedelivery /\ [][DeliverStartSpyCall]_vars

\* C34: spy initiation is idempotent per buffaloCallId under at-least-once
\* delivery: however often the one start_spy_call task is delivered or
\* retried, at most one provider call is created and at most one session
\* exists for its buffaloCallId.
C34_InitiationIdempotent ==
    /\ Len(calls) <= 1
    /\ \A c \in CallIds : Cardinality(SessionsOf(c)) <= 1


(***************************************************************************)
(* The record a call is answered with: phone, external and queue events    *)
(* of one call, then answered and terminated, each kept in the history.    *)
(***************************************************************************)
MaxSnapshotFeed == 4

QueueTo(num) == Body("queue", Absent, num, Absent, None, None)

SnapshotEventInputs ==
    { Event("new", Id("c1"), b) :
        b \in {TrackedPhone, TrackedExternal, OwnPhone, QueueTo(AgentExt)} }
      \cup { Event("ringing", Id("c1"), QueueTo(Absent)) }
      \cup { Event(t, Id("c1"), EmptyBody) : t \in {"answered", "terminated"} }

FeedSnapshot ==
    /\ Len(processed) < MaxSnapshotFeed
    /\ \E e \in SnapshotEventInputs :
         /\ process_buffalo_event(e)
         /\ processed' = Append(processed, [kind |-> "object", event |-> e])
         /\ arrived' = Append(arrived, [kind |-> "object", event |-> e])
    /\ UNCHANGED <<inbox, current>>

SpecSnapshot == Init /\ [][FeedSnapshot]_vars

\* The record of "c1" the rule leaves after the first n events of a history:
\* a phone or external event of another agent's extension writes the whole
\* record, a queue event with a dnumber writes the extension of the record
\* there is, the first answered event of a tracked call takes the record
\* away and guards the callId, terminated clears both.
RECURSIVE RuleRecord(_, _)
RuleRecord(hist, n) ==
    IF n = 0 THEN [has |-> FALSE, rec |-> Null, guarded |-> FALSE]
    ELSE LET s == RuleRecord(hist, n - 1)
             e == hist[n].event
         IN  IF e.event \in {"new", "ringing"}
             THEN IF e.stype \in {"phone", "external"}
                  THEN IF RuleAgent(e) \in {Absent, << >>, sip_username} THEN s
                       ELSE [s EXCEPT !.has = TRUE, !.rec = PendingCall(e, "c1")]
                  ELSE IF e.stype = "queue" /\ s.has /\ e.dnumber \notin {Absent, << >>}
                  THEN [s EXCEPT !.rec = [s.rec EXCEPT !.spyNumber = e.dnumber]]
                  ELSE s
             ELSE IF e.event = "answered"
             THEN IF s.has /\ ~s.guarded
                  THEN [has |-> FALSE, rec |-> Null, guarded |-> TRUE]
                  ELSE s
             ELSE [has |-> FALSE, rec |-> Null, guarded |-> FALSE]

\* C36: pending_calls holds at most one record per callId, the one the most
\* recent new/ringing events left (a phone/external event replaces the whole
\* record, an extension corrected by a queue event included; a queue event
\* replaces only the extension), and the snapshot a Spy signal carries is
\* that record as it stood when the answered event arrived.
C36_SnapshotIsLatestRecord ==
    /\ [](LET s == RuleRecord(processed, Len(processed)) IN
          /\ DOMAIN pending_calls = (IF s.has THEN {"c1"} ELSE {})
          /\ s.has => pending_calls["c1"] = s.rec)
    /\ [][(/\ Stepped
           /\ processed'[Len(processed')].event.event = "answered"
           /\ SpySignals(effects') # {}) =>
             LET s == RuleRecord(processed, Len(processed)) IN
             /\ s.has
             /\ \A i \in DOMAIN effects' :
                  /\ effects'[i].call_details = s.rec
                  /\ effects'[i].extension = s.rec.spyNumber]_vars

\* The call came in for one agent, the queue moved it to another one, a
\* second external event wrote the record anew, and the call was answered:
\* the Spy signal carries the record of the second external event.
C36_Witness ==
    /\ Len(processed) = 4
    /\ processed[1].event.stype = "external"
    /\ processed[2].event.stype = "queue" /\ processed[2].event.dnumber = AgentExt
    /\ processed[3].event.stype = "external"
    /\ processed[4].event.event = "answered"
    /\ SpySignals(effects) # {}
    /\ effects[1].call_details.spyNumber = AgentExt2
    /\ effects[1].call_details.direction = "INBOUND"
    /\ "c1" \notin DOMAIN pending_calls


(***************************************************************************)
(* The connection loop with its sleep returning: asyncio.sleep(wait_time)  *)
(* ends after wait_time seconds, at most max_reconnect_delay.              *)
(***************************************************************************)
SpecConnectFair == SpecConnect /\ WF_vars(WaitOver)

\* C37: after any disconnect or connection error the connection loop makes
\* another connection attempt: the loop is never left (it is connecting,
\* connected or waiting), every end of a connection and every failed attempt
\* starts a wait, and every wait ends in a new attempt.
C37_AlwaysReconnects ==
    /\ [](ws \in {"connecting", "connected", "waiting"})
    /\ [][(ws \in {"connecting", "connected"} /\ ws' # ws /\ ws' # "connected")
            => ws' = "waiting" /\ wait_time' >= 1]_vars
    /\ (ws = "waiting") ~> (ws = "connecting")

\* A connection was made after one failed attempt; it ended, the attempt
\* after the wait failed, and the loop is attempting to connect once more.
C37_Witness ==
    /\ ws = "connecting"
    /\ failed_before_connect = 1
    /\ waits_since_connect = 2
    /\ retry_count = 2 /\ wait_time = 4


(***************************************************************************)
(* Events the handler cannot attribute to a trackable call, fed between    *)
(* the events of a tracked call.                                           *)
(***************************************************************************)
MaxUntrackedFeed == 3

UntrackableEventInputs ==
    { Event(t, Id(None), TrackedPhone) : t \in {"new", "answered", "terminated"} }
      \cup { Event(t, Id("c1"), OtherStype) : t \in {"new", "ringing"} }
      \cup { Event("new", Id("c1"), b) :
               b \in { Body("phone", Absent, DidNum, Absent, None, None),
                       Body("phone", DidNum, Absent, Absent, None, None),
                       Body("phone", << >>, DidNum, Absent, None, None),
                       Body("external", Absent, Absent, Absent, None, None) } }
      \cup { Event("hold", Id("c1"), EmptyBody), Event("transfer", Id("c1"), TrackedPhone) }

FeedUntracked ==
    /\ Len(processed) < MaxUntrackedFeed
    /\ \E e \in UntrackableEventInputs \cup FlowEventInputs :
         /\ process_buffalo_event(e)
         /\ processed' = Append(processed, [kind |-> "object", event |-> e])
         /\ arrived' = Append(arrived, [kind |-> "object", event |-> e])
    /\ UNCHANGED <<inbox, current>>

SpecUntracked == Init /\ [][FeedUntracked]_vars

\* The four kinds of event the rule calls untrackable.
Untrackable(e) ==
    \/ e.callid \in {None, ""} /\ e.uniqueid \in {None, ""}
    \/ e.event \in {"new", "ringing"} /\ e.stype \notin {"phone", "external", "queue"}
    \/ /\ e.event \in {"new", "ringing"} /\ e.stype \in {"phone", "external"}
       /\ RuleAgent(e) \in {Absent, << >>}
    \/ e.event \notin {"new", "ringing", "answered", "terminated"}

\* C38: an event that cannot be attributed to a trackable call is a complete
\* no-op (no signal, no call, no session, both maps unchanged): an event with
\* neither callid nor uniqueid, a new/ringing event of an stype other than
\* phone, external and queue, a new/ringing event whose derived agent
\* extension is empty or absent, and an event of any type other than new,
\* ringing, answered and terminated.
C38_UntrackableIsNoOp ==
    [][(Stepped /\ Untrackable(processed'[Len(processed')].event)) =>
          /\ pending_calls' = pending_calls
          /\ processed_answered_calls' = processed_answered_calls
          /\ effects' = << >>
          /\ tasks' = tasks /\ calls' = calls /\ sessions' = sessions
          /\ spy_count' = spy_count]_vars

\* A call is tracked; an event without id and an event of another type
\* followed, and the call is tracked as before.
C38_Witness ==
    /\ Len(processed) = 3
    /\ processed[1].event = Event("new", Id("c1"), TrackedPhone)
    /\ processed[2].event.callid = None
    /\ processed[3].event.event = "hold"
    /\ DOMAIN pending_calls = {"c1"}
    /\ pending_calls["c1"] = PendingCall(processed[1].event, "c1")
    /\ effects = << >>


(***************************************************************************)
(* The connection loop and the events of one call, the ends of the         *)
(* connections kept in the history between the events.                     *)
(***************************************************************************)
MaxReconnectFeed == 5

\* The connection ends between two messages: the loop body is not running.
LoseConnection ==
    /\ ws = "connected"
    /\ current = Null
    /\ Len(processed) < MaxReconnectFeed
    /\ retry_count < MaxRetries
    /\ BackoffStep
    /\ inbox' = << >>
    /\ processed' = Append(processed, [kind |-> "closed", event |-> Null])
    /\ UNCHANGED <<pending_calls, processed_answered_calls, tasks, sessions, calls,
                   effects, spy_count, cleanup_dispatched, poll, harvest, control,
                   current, arrived>>

\* A message of the connection, processed to its end.
FeedConnected ==
    /\ ws = "connected"
    /\ Len(processed) < MaxReconnectFeed
    /\ \E e \in FlowEventInputs :
         /\ process_buffalo_event(e)
         /\ processed' = Append(processed, [kind |-> "object", event |-> e])
         /\ arrived' = Append(arrived, [kind |-> "object", event |-> e])
    /\ UNCHANGED <<inbox, current>>

SpecReconnect ==
    Init /\ [][ConnectOk \/ LoseConnection \/ WaitOver \/ FeedConnected]_vars

\* C39: the correlation state survives reconnection: the end of a
\* connection, the backoff wait and the next successful connection leave
\* pending_calls and processed_answered_calls unchanged, so a callId answered
\* before a disconnect stays guarded after the reconnect: no further Spy
\* signal is emitted for it while it is in processed_answered_calls.
C39_StateSurvivesReconnect ==
    /\ [][connection' # connection =>
            UNCHANGED <<pending_calls, processed_answered_calls, spy_count>>]_vars
    /\ [][("c1" \in processed_answered_calls /\ "c1" \in processed_answered_calls') =>
            /\ spy_count' = spy_count
            /\ tasks' = tasks /\ calls' = calls /\ sessions' = sessions]_vars

\* The call was answered, the connection ended and a new one was made; the
\* call was announced and answered again: the second answered event was
\* skipped as a duplicate.
C39_Witness ==
    /\ Len(processed) = 5
    /\ processed[1].kind = "object" /\ processed[1].event.event = "new"
    /\ processed[2].kind = "object" /\ processed[2].event.event = "answered"
    /\ processed[3].kind = "closed"
    /\ processed[4].kind = "object" /\ processed[4].event.event = "new"
    /\ processed[5].kind = "object" /\ processed[5].event.event = "answered"
    /\ ws = "connected" /\ failed_before_connect = 1
    /\ "c1" \in processed_answered_calls
    /\ spy_count["c1"] = 1
    /\ effects = << [op |-> "log", tag |-> "PBX-ANSWERED-DUPLICATE", about |-> "c1"] >>


(***************************************************************************)
(* Properties of processed_answered_calls.                                 *)
(***************************************************************************)

\* C40: in every reachable state each callId in processed_answered_calls has
\* had a Spy signal emitted for it by an answered event, and no terminated
\* event of that callId was processed since; an entry is added only by an
\* answered event that emits a Spy signal, and removed only by a terminated
\* event of its callId.
C40_GuardMeansSpyEmitted ==
    /\ [](\A c \in processed_answered_calls : spy_count[c] = 1)
    /\ [][processed_answered_calls' # processed_answered_calls =>
            /\ current # Null /\ current.kind = "object"
            /\ LET e == current.event
                   c == CallIdOf(e)
               IN  \/ /\ e.event = "answered"
                      /\ c \notin processed_answered_calls
                      /\ processed_answered_calls' = processed_answered_calls \cup {c}
                      /\ SpySignals(effects') # {}
                      /\ \A i \in SpySignals(effects') : effects'[i].call_details.callId = c
                      /\ spy_count'[c] = spy_count[c] + 1
                   \/ /\ e.event = "terminated"
                      /\ c \in processed_answered_calls
                      /\ processed_answered_calls' = processed_answered_calls \ {c}
                      /\ spy_count'[c] = 0]_vars

\* The callId is in its second life: its first call was answered and ended,
\* its second call is answered and guarded, with one Spy signal since the end
\* of the first.
C40_Witness ==
    /\ Len(processed) = 5
    /\ \A i \in 1..5 : processed[i].kind = "object"
    /\ processed[2].event.event = "answered"
    /\ processed[3].event.event = "terminated"
    /\ processed[4].event.event = "new"
    /\ processed[5].event.event = "answered"
    /\ processed_answered_calls = {"c1"}
    /\ spy_count["c1"] = 1
    /\ SpySignals(effects) # {}

====
